---- MODULE Spec2Model ----
(***************************************************************************)
(* TableCore: the grid engine of src/src/core/TableCore.tsx (the tree-     *)
(* enabled component, lines 1-782), with its history hook useUndoRedo.ts   *)
(* and a host that applies every change request verbatim.                  *)
(*                                                                         *)
(* One action is one event handler run to completion, followed by the      *)
(* render it causes (the host's setRows and the component's effects).      *)
(* The host passes stable accessor props, so the effects run only when     *)
(* rows or rowOrder change.                                                *)
(***************************************************************************)
EXTENDS Integers, Sequences, FiniteSets, TLC

(***************************************************************************)
(* Bounds of the model.                                                    *)
(***************************************************************************)
\* deepest undo stack the grid's handlers may build
MaxHist == 1
\* deepest undo stack the callers of the history hook may build
MaxDepth == 3
\* largest row/column index a pointer or caller passes (from -1)
MaxIdx == 3
\* the host passes lists of at most MaxRows rows
MaxRows == 3
\* the scrolled grid has at most MaxWindowRows rows
MaxWindowRows == 16
\* at most MaxCalls calls of ActivityRepo.patch are made
MaxCalls == 3

(***************************************************************************)
(* JavaScript values: every value is a record of one shape, so that any    *)
(* two can be compared (===).                                              *)
(***************************************************************************)
Undef == [k |-> "undefined", s |-> "", n |-> 0]
Null == [k |-> "null", s |-> "", n |-> 0]
Str(s) == [k |-> "string", s |-> s, n |-> 0]
Num(n) == [k |-> "number", s |-> "", n |-> n]
NaN == [k |-> "NaN", s |-> "", n |-> 0]

\* a !== b
StrictNe(a, b) == a # b \/ a = NaN

\* the optional values of the component state: null is the empty sequence
None == << >>
Some(x) == << x >>
IsSome(o) == Len(o) > 0
The(o) == o[1]

Last(q) == q[Len(q)]
Front(q) == SubSeq(q, 1, Len(q) - 1)

Min(a, b) == IF a < b THEN a ELSE b
Max(a, b) == IF a > b THEN a ELSE b

(***************************************************************************)
(* The host's schema and data.                                             *)
(***************************************************************************)
PARENT_COL_ID == "parentId"

\* the host's column definitions: name is a text column without guard or
\* validator, qty a number column that is editable on unlocked rows only and
\* whose validator rejects 9
ColumnDefs ==
  << [id |-> "name", type |-> "text", hasEditable |-> FALSE, hasValidate |-> FALSE],
     [id |-> "qty", type |-> "number", hasEditable |-> TRUE, hasValidate |-> TRUE] >>

ColIds == {"name", "qty"}

\* col.editable(row) of the qty column
EditableGuard(col, row) == ~row.locked

\* col.validate(value, row) instanceof Error, of the qty column
ValidateFails(col, value, row) == value = Num(9)

\* the rows the host starts with: r1 is a root with the child r2 (locked),
\* r3 is a summary row
InitRows ==
  << [id |-> "r1", type |-> "data", locked |-> FALSE, parentId |-> Null,
      name |-> Str("a"), qty |-> Num(1)],
     [id |-> "r2", type |-> "data", locked |-> TRUE, parentId |-> Str("r1"),
      name |-> Str(""), qty |-> Undef],
     [id |-> "r3", type |-> "summary", locked |-> FALSE, parentId |-> Null,
      name |-> Str("a"), qty |-> Undef] >>

RowIds == { InitRows[i].id : i \in DOMAIN InitRows }

\* what an editor's onChange can put into the draft of a column
DraftsOf(colId) ==
  IF colId = "qty" THEN {Undef, Num(1), Num(9)} ELSE {Str(""), Str("a")}

(***************************************************************************)
(* Clipboard text.  A text is a sequence of tokens: the three delimiters   *)
(* and atoms, which stand for delimiter-free non-empty pieces of text.     *)
(* The texts of the model hold at most one atom between two delimiters, so *)
(* a field is the empty string or one atom.                                *)
(***************************************************************************)
TAB == "<TAB>"
LF == "<LF>"
CR == "<CR>"

RECURSIVE Split(_, _)
\* text.split(sep): the pieces between the separators, at least one
Split(text, sep) ==
  IF \A i \in DOMAIN text : text[i] # sep THEN << text >>
  ELSE LET k == CHOOSE i \in DOMAIN text : text[i] = sep /\ \A j \in 1..(i - 1) : text[j] # sep
       IN << SubSeq(text, 1, k - 1) >> \o Split(SubSeq(text, k + 1, Len(text)), sep)

RECURSIVE Join(_, _)
\* pieces.join(sep)
Join(pieces, sep) ==
  IF pieces = << >> THEN << >>
  ELSE IF Len(pieces) = 1 THEN pieces[1]
  ELSE pieces[1] \o << sep >> \o Join(Tail(pieces), sep)

\* the string a field of one atom or none stands for
FieldString(field) == IF field = << >> THEN "" ELSE field[1]

\* parseTSV(text)
ParseTSV(text) ==
  LET lines == Split(SelectSeq(text, LAMBDA t : t # CR), LF)
      endsWithLF == Len(text) > 0 /\ text[Len(text)] = LF
      kept == SelectSeq(lines, LAMBDA l : Len(l) > 0 \/ endsWithLF)
  IN [i \in DOMAIN kept |->
        LET fields == Split(kept[i], TAB)
        IN [j \in DOMAIN fields |-> FieldString(fields[j])]]

\* the texts a paste event carries: 'a<TAB>1<LF><TAB>9', '<TAB>9<LF>a<TAB>1',
\* '1' and 'a<LF><LF>a<LF>'
PasteTexts ==
  { << "a", TAB, "1", LF, TAB, "9" >>,
    << TAB, "9", LF, "a", TAB, "1" >>,
    << "1" >>,
    << "a", LF, LF, "a", LF >> }

\* the matrices the paste events deliver to doPaste: two 2 x 2, of which one
\* has the rejected 9 last and one has it before other cells, 1 x 1, 4 x 1
PasteMatrices == { ParseTSV(t) : t \in PasteTexts }

VARIABLES
  readonly,     \* props.readonly
  treeMode,     \* props.treeMode
  showSummaries,\* props.showSummaries
  hasOnPatch,   \* whether props.onPatch is given
  rowHeight,    \* props.rowHeight
  bodyHeight,   \* props.bodyHeight
  columns,      \* props.columns: the ids of the host's columns, in its order
  rows,         \* props.rows
  rows0,        \* the rows the host started with
  colOrder,     \* useState colOrder
  rowOrder,     \* useState rowOrder
  expanded,     \* useState expanded
  editing,      \* useState editing: None or Some(EditingCell)
  rect,         \* useState rect: None or Some(Rect)
  anchor,       \* useState anchor: None or Some([r, c])
  undoStack,    \* useUndoRedo undoStack.current
  redoStack,    \* useUndoRedo redoStack.current
  lastOp,       \* the handler that ran last
  emitted,      \* the change requests (onPatch calls) of the last handler, in order
  commits,      \* the number of onCommit calls of the last handler
  ret,          \* what history.undo / history.redo / doCopy returned in the last handler
  threw,        \* whether the last handler ended in a TypeError
  notified,     \* the selection or reorder event of the last handler: None or Some(event)
  clipboard,    \* the text/plain content of the system clipboard
  scrollTop,    \* useState scrollTop
  filters,      \* the predicate the user entered for each column: None or Some(predicate)
  dragRowIdx,   \* useState dragRowIdx: None or Some(index)
  dragColIdx,   \* useState dragColIdx: None or Some(index)
  dragData,     \* the drag in progress: None or Some([axis, idx]), idx being its text/plain data
  isDraggingRange, \* useState isDraggingRange
  dragStartRef, \* dragStartRef.current: None or Some([r, c]); x and y are the origin of the
                \* offsets a pointer-up is given by
  listener,     \* the render whose onMouseUp is registered on window: the [vis, cols] its
                \* startEdit reads. The pointer gesture's handlers follow it; the
                \* specifications without a pointer-up leave it as it was registered first
  stored,       \* the activity row in the IndexedDB store
  calls,        \* the ActivityRepo.patch calls: where each stands, its arguments, its next row
  pending       \* the calls whose IndexedDB request waits, in the order the requests were made

props == << readonly, treeMode, showSummaries, hasOnPatch, rowHeight, bodyHeight >>
host == << columns, rows, rows0 >>
order == << colOrder, rowOrder >>
sel == << rect, anchor >>
hist == << undoStack, redoStack >>
obs == << lastOp, emitted, commits, ret, threw, notified >>
drag == << dragRowIdx, dragColIdx, dragData >>
gesture == << isDraggingRange, dragStartRef, listener >>
repo == << stored, calls, pending >>
grid == << props, host, order, expanded, editing, sel, hist, obs, clipboard, scrollTop, filters, drag,
           gesture >>
vars == << grid, repo >>

(***************************************************************************)
(* Derived values of a render.                                             *)
(***************************************************************************)
SeqToSet(s) == { s[i] : i \in DOMAIN s }

\* order.filter(id => keep.includes(id))
FilterIn(s, keep) == SelectSeq(s, LAMBDA id : id \in keep)

\* the reconciliation with the new ids put first
Reconcile_NewFirst(prev, inc) ==
  SelectSeq(inc, LAMBDA id : id \notin SeqToSet(prev)) \o FilterIn(prev, SeqToSet(inc))

\* [...prev.filter(id => inc.includes(id)), ...inc.filter(id => !prev.includes(id))]
Reconcile(prev, inc) ==
  FilterIn(prev, SeqToSet(inc)) \o SelectSeq(inc, LAMBDA id : id \notin SeqToSet(prev))

RowIdsOf(rs) == [i \in DOMAIN rs |-> rs[i].id]

HasRow(rs, id) == \E i \in DOMAIN rs : rs[i].id = id

\* rows.find(r => r.id === id), idToRow.get(id)
RowOf(rs, id) == rs[CHOOSE i \in DOMAIN rs : rs[i].id = id /\ \A j \in 1..(i - 1) : rs[j].id # id]

ColDefOf(id) == ColumnDefs[CHOOSE i \in DOMAIN ColumnDefs : ColumnDefs[i].id = id]

\* colOrder.map(id => columns.find(c => c.id === id)).filter(Boolean)
AllColsOf(co, cols) == FilterIn(co, SeqToSet(cols))

\* getParentId(r) = r.parentId ?? null
GetParentId(r) == IF r.parentId = Undef THEN Null ELSE r.parentId

\* parentOf.get(id) ?? null
ParentOf(rs, id) == IF HasRow(rs, id) THEN GetParentId(RowOf(rs, id)) ELSE Null

\* childrenOf.get(p) ?? []: the ids of rowOrder whose row has parent p
ChildrenOf(rs, ro, p) ==
  SelectSeq(ro, LAMBDA id : HasRow(rs, id) /\ GetParentId(RowOf(rs, id)) = p)

\* getRowType(r) === 'summary', for a host whose getRowType reads the row's type
IsSummaryRow(r) == r.type = "summary"

RECURSIVE WalkAll(_, _, _, _, _, _)
\* walk(id, level) descending into collapsed rows too
Walk_IgnoreExpansion(rs, ro, ex, ss, id, level) ==
  IF ~HasRow(rs, id) THEN << >>
  ELSE LET r == RowOf(rs, id)
           kids == ChildrenOf(rs, ro, Str(id))
           self == IF ~(IsSummaryRow(r) /\ ~ss)
                   THEN << [row |-> r, level |-> level, hasChildren |-> Len(kids) > 0,
                            isSummary |-> IsSummaryRow(r)] >>
                   ELSE << >>
       IN self \o WalkAll(rs, ro, ex, ss, kids, level + 1)

\* walk(id, level) of the tree projection
Walk(rs, ro, ex, ss, id, level) ==
  IF ~HasRow(rs, id) THEN << >>
  ELSE LET r == RowOf(rs, id)
           kids == ChildrenOf(rs, ro, Str(id))
           isSummary == IsSummaryRow(r)
           hasChildren == Len(kids) > 0
           self == IF ~(isSummary /\ ~ss)
                   THEN << [row |-> r, level |-> level, hasChildren |-> hasChildren,
                            isSummary |-> isSummary] >>
                   ELSE << >>
       IN self \o (IF hasChildren /\ id \in ex
                   THEN WalkAll(rs, ro, ex, ss, kids, level + 1)
                   ELSE << >>)

\* for (const cid of kids) walk(cid, level)
WalkAll(rs, ro, ex, ss, ids, level) ==
  IF ids = << >> THEN << >>
  ELSE Walk(rs, ro, ex, ss, Head(ids), level) \o WalkAll(rs, ro, ex, ss, Tail(ids), level)

\* the flat projection of non-tree mode
FlatVisible(rs, ro, ss) ==
  LET present == FilterIn(ro, SeqToSet(RowIdsOf(rs)))
      all == [i \in DOMAIN present |->
                [row |-> RowOf(rs, present[i]), level |-> 0, hasChildren |-> FALSE,
                 isSummary |-> IsSummaryRow(RowOf(rs, present[i]))]]
  IN SelectSeq(all, LAMBDA v : ss \/ ~v.isSummary)

\* the visible projection walked from every row without a parent row
VisibleOf_OrphansAsRoots(tm, rs, ro, ex, ss) ==
  IF ~tm THEN FlatVisible(rs, ro, ss)
  ELSE WalkAll(rs, ro, ex, ss,
               SelectSeq(ro, LAMBDA id : /\ HasRow(rs, id)
                                         /\ \/ GetParentId(RowOf(rs, id)) = Null
                                            \/ ~HasRow(rs, GetParentId(RowOf(rs, id)).s)), 0)

\* the visible projection
VisibleOf(tm, rs, ro, ex, ss) ==
  IF ~tm THEN FlatVisible(rs, ro, ss)
  ELSE WalkAll(rs, ro, ex, ss, ChildrenOf(rs, ro, Null), 0)

visible == VisibleOf(treeMode, rows, rowOrder, expanded, showSummaries)
allCols == AllColsOf(colOrder, columns)
rowCount == Len(visible)
colCount == Len(allCols)

\* the ids of rowOrder that have children
WithKids(rs, ro) == { id \in SeqToSet(ro) : Len(ChildrenOf(rs, ro, Str(id))) > 0 }

\* the effect on [rowOrder, childrenOf]: parents not yet expanded are expanded
ExpandEffect(ex, rs, ro) == ex \cup WithKids(rs, ro)

(***************************************************************************)
(* The window of materialized rows.                                        *)
(***************************************************************************)
\* Math.ceil(a / b) for a >= 0, b > 0
CeilDiv(a, b) == (a + b - 1) \div b

\* seq.slice(start, end), indices from 0
Slice(seq, start, end) ==
  LET rel(x) == IF x < 0 THEN Max(Len(seq) + x, 0) ELSE Min(x, Len(seq))
  IN SubSeq(seq, rel(start) + 1, rel(end))

\* the rows kept around the viewport on either side
Overscan == 6

startIdx == Max(0, (scrollTop \div rowHeight) - Overscan)
visibleCount == CeilDiv(bodyHeight, rowHeight) + 2 * Overscan
endIdx == Min(rowCount - 1, startIdx + visibleCount - 1)
padTop == startIdx * rowHeight
padBottom == Max(0, (rowCount - endIdx - 1) * rowHeight)

\* visible.slice(startIdx, endIdx) in place of visible.slice(startIdx, endIdx + 1)
windowRows_ShortByOne == Slice(visible, startIdx, endIdx)

windowRows == Slice(visible, startIdx, endIdx + 1)

\* the height of the scrolled content: the two paddings and the rows between
contentHeight == padTop + Len(windowRows) * rowHeight + padBottom

(***************************************************************************)
(* Type-specific coercion and empty values.                                *)
(***************************************************************************)
\* Number(text) on the texts of PasteMatrices (none holds a decimal separator)
NumberOf(text) ==
  CASE text = "1" -> Num(1)
    [] text = "9" -> Num(9)
    [] OTHER -> NaN

\* coerce(type, text)
Coerce(type, text) ==
  CASE type = "number" -> IF text = "" THEN Undef ELSE NumberOf(text)
    [] type = "date" -> IF text = "" THEN Undef ELSE Str(text)
    [] type = "select" -> Str(text)
    [] type = "color" -> IF text = "" THEN Str("#000000") ELSE Str(text)
    [] OTHER -> Str(text)

\* emptyFor(type)
EmptyFor(type) ==
  CASE type = "number" -> Undef
    [] type = "date" -> Undef
    [] type = "select" -> Str("")
    [] type = "color" -> Str("#000000")
    [] OTHER -> Str("")

(***************************************************************************)
(* Selection.                                                              *)
(***************************************************************************)
\* clamp(v, lo, hi) = Math.max(lo, Math.min(hi, v))
Clamp(v, lo, hi) == Max(lo, Min(hi, v))

\* setSingle that stores the cell it was given, clamping nothing
SingleRect_Unclamped(r, c) == [r0 |-> r, r1 |-> r, c0 |-> c, c1 |-> c]

\* setRange that forgets the anchor and selects the cell under the pointer
RangeRect_PointerCell(a, r, c) ==
  LET rIdx == Max(0, Min(rowCount - 1, r))
      cIdx == Max(0, Min(colCount - 1, c))
  IN [r0 |-> rIdx, r1 |-> rIdx, c0 |-> cIdx, c1 |-> cIdx]

\* the rectangle and anchor setSingle(r, c) sets
SingleRect(r, c) ==
  LET rIdx == Clamp(r, 0, rowCount - 1)
      cIdx == Clamp(c, 0, colCount - 1)
  IN [r0 |-> rIdx, r1 |-> rIdx, c0 |-> cIdx, c1 |-> cIdx]

\* the rectangle setRange(r, c) sets when there is an anchor a
RangeRect(a, r, c) ==
  LET rIdx == Clamp(r, 0, rowCount - 1)
      cIdx == Clamp(c, 0, colCount - 1)
  IN [r0 |-> Min(a.r, rIdx), r1 |-> Max(a.r, rIdx),
      c0 |-> Min(a.c, cIdx), c1 |-> Max(a.c, cIdx)]

(***************************************************************************)
(* History: useUndoRedo.                                                   *)
(***************************************************************************)
Change(rowId, colId, old, next) ==
  [rowId |-> rowId, colId |-> colId, oldValue |-> old, nextValue |-> next]

\* push that keeps the redo stack
HistPush_KeepRedo(u, r, a) == [undo |-> Append(u, a), redo |-> r]

\* push(action): the two stacks after it
HistPush(u, r, a) == [undo |-> Append(u, a), redo |-> << >>]

\* undo that returns an action without changes when there is none to undo
HistUndo_ReturnsEmptyAction(u, r) ==
  IF Len(u) = 0 THEN [undo |-> u, redo |-> r, ret |-> Some([changes |-> << >>])]
  ELSE [undo |-> SubSeq(u, 1, Len(u) - 1), redo |-> Append(r, u[Len(u)]),
        ret |-> Some(u[Len(u)])]

\* undo(): the two stacks after it and the action returned (None for null)
HistUndo(u, r) ==
  IF Len(u) = 0 THEN [undo |-> u, redo |-> r, ret |-> None]
  ELSE [undo |-> SubSeq(u, 1, Len(u) - 1), redo |-> Append(r, u[Len(u)]),
        ret |-> Some(u[Len(u)])]

\* redo that returns the action but leaves it on the redo stack
HistRedo_NoPop(u, r) ==
  IF Len(r) = 0 THEN [undo |-> u, redo |-> r, ret |-> None]
  ELSE [undo |-> Append(u, r[Len(r)]), redo |-> r, ret |-> Some(r[Len(r)])]

\* redo(): the two stacks after it and the action returned (None for null)
HistRedo(u, r) ==
  IF Len(r) = 0 THEN [undo |-> u, redo |-> r, ret |-> None]
  ELSE [undo |-> Append(u, r[Len(r)]), redo |-> SubSeq(r, 1, Len(r) - 1),
        ret |-> Some(r[Len(r)])]

\* the change requests applyActionForward(action) emits
ForwardPatches(a) ==
  [i \in DOMAIN a.changes |->
     Change(a.changes[i].rowId, a.changes[i].colId,
            a.changes[i].oldValue, a.changes[i].nextValue)]

\* an inverse that emits the changes as recorded
InversePatches_Unswapped(a) ==
  [i \in DOMAIN a.changes |->
     Change(a.changes[i].rowId, a.changes[i].colId,
            a.changes[i].oldValue, a.changes[i].nextValue)]

\* the change requests applyActionInverse(action) emits
InversePatches(a) ==
  [i \in DOMAIN a.changes |->
     Change(a.changes[i].rowId, a.changes[i].colId,
            a.changes[i].nextValue, a.changes[i].oldValue)]

(***************************************************************************)
(* The host: it applies every change request verbatim.                     *)
(***************************************************************************)
\* setRows(prev => prev.map(r => r.id === rowId ? {...r, [colId]: nextValue} : r))
ApplyPatch(rs, p) ==
  [i \in DOMAIN rs |->
     IF rs[i].id = p.rowId THEN [rs[i] EXCEPT ![p.colId] = p.nextValue] ELSE rs[i]]

RECURSIVE ApplyPatches(_, _)
ApplyPatches(rs, ps) ==
  IF ps = << >> THEN rs ELSE ApplyPatches(ApplyPatch(rs, Head(ps)), Tail(ps))

(***************************************************************************)
(* Editing.                                                                *)
(***************************************************************************)
\* visible[i], allCols[i] are defined (the source's indices count from 0)
InRows(i) == 0 <= i /\ i < rowCount
InCols(i) == 0 <= i /\ i < colCount
VisAt(i) == visible[i + 1]
ColAt(i) == ColDefOf(allCols[i + 1])

\* col.editable ? !!col.editable(row) : true
IsEditable(col, row) == IF col.hasEditable THEN EditableGuard(col, row) ELSE TRUE

\* startEdit without its summary-row check
StartEditOn_NoSummaryCheck(vis, cols, rIdxAbs, cIdx) ==
  LET inRows == 0 <= rIdxAbs /\ rIdxAbs < Len(vis)
      inCols == 0 <= cIdx /\ cIdx < Len(cols)
      v == vis[rIdxAbs + 1]
      col == ColDefOf(cols[cIdx + 1])
  IN IF readonly THEN editing
     ELSE IF ~inRows THEN editing
     ELSE IF ~inCols THEN editing
     ELSE IF ~IsEditable(col, v.row) THEN editing
     ELSE Some([rowId |-> v.row.id, colId |-> col.id, draft |-> v.row[col.id]])

\* startEdit(rIdxAbs, cIdx) on the projection vis and the columns cols: the
\* editing state after it
StartEditOn(vis, cols, rIdxAbs, cIdx) ==
  LET inRows == 0 <= rIdxAbs /\ rIdxAbs < Len(vis)
      inCols == 0 <= cIdx /\ cIdx < Len(cols)
      v == vis[rIdxAbs + 1]
      col == ColDefOf(cols[cIdx + 1])
  IN IF readonly THEN editing
     ELSE IF ~inRows THEN editing
     ELSE IF v.isSummary THEN editing
     ELSE IF ~inCols THEN editing
     ELSE IF ~IsEditable(col, v.row) THEN editing
     ELSE Some([rowId |-> v.row.id, colId |-> col.id, draft |-> v.row[col.id]])

StartEditResult(rIdxAbs, cIdx) == StartEditOn(visible, allCols, rIdxAbs, cIdx)

\* commitEdit(): what it emits, pushes and leaves in editing
CommitEditResult ==
  IF ~IsSome(editing)
  THEN [patches |-> << >>, pushed |-> None, commits |-> 0, editing |-> editing]
  ELSE LET e == The(editing) IN
    IF ~HasRow(rows, e.rowId)
    THEN [patches |-> << >>, pushed |-> None, commits |-> 0, editing |-> None]
    ELSE LET old == RowOf(rows, e.rowId)[e.colId]
             ch == Change(e.rowId, e.colId, old, e.draft)
         IN [patches |-> IF hasOnPatch /\ StrictNe(old, e.draft) THEN << ch >> ELSE << >>,
             pushed |-> Some([changes |-> << ch >>]),
             commits |-> 1,
             editing |-> None]

(***************************************************************************)
(* Clipboard paste and Delete.                                             *)
(***************************************************************************)
\* the cells of rows r0..r1 and columns c0..c1, row by row
CellsOf(r0, r1, c0, c1) ==
  IF r1 < r0 \/ c1 < c0 THEN << >>
  ELSE LET w == c1 - c0 + 1
       IN [k \in 1..((r1 - r0 + 1) * w) |->
             [r |-> r0 + ((k - 1) \div w), c |-> c0 + ((k - 1) % w)]]

\* data2D[i]?.[j] ?? ''
TextAt(data2D, i, j) ==
  IF i + 1 \in DOMAIN data2D /\ j + 1 \in DOMAIN data2D[i + 1] THEN data2D[i + 1][j + 1] ELSE ""

\* a paste that also emits the cells whose parsed value is the current one
PasteChanges_KeepUnchanged(data2D) ==
  IF ~IsSome(rect) \/ ~hasOnPatch THEN << >>
  ELSE LET rc == The(rect)
           vis == visible
           cols == allCols
           firstLen == IF Len(data2D) > 0 THEN Len(data2D[1]) ELSE 1
           maxR == Min(rc.r0 + Len(data2D) - 1, Len(vis) - 1)
           maxC == Min(rc.c0 + firstLen - 1, Len(cols) - 1)
           cells == CellsOf(rc.r0, maxR, rc.c0, maxC)
           colOf(cell) == ColDefOf(cols[cell.c + 1])
           rowOf(cell) == vis[cell.r + 1].row
           parsedAt(cell) == Coerce(colOf(cell).type, TextAt(data2D, cell.r - rc.r0, cell.c - rc.c0))
           oldAt(cell) == rowOf(cell)[colOf(cell).id]
           rejected(cell) == colOf(cell).hasValidate
                             /\ ValidateFails(colOf(cell), parsedAt(cell), rowOf(cell))
           kept == SelectSeq(cells, LAMBDA cell : ~rejected(cell))
       IN [i \in DOMAIN kept |->
             Change(rowOf(kept[i]).id, colOf(kept[i]).id, oldAt(kept[i]), parsedAt(kept[i]))]

\* val == null ? '' : String(val), as a field of one atom or none
Stringify(v) ==
  CASE v = Undef \/ v = Null -> << >>
    [] v.k = "string" -> IF v.s = "" THEN << >> ELSE << v.s >>
    [] v.k = "number" -> << ToString(v.n) >>
    [] OTHER -> << "NaN" >>

\* doCopy() with a trailing newline after the last line
CopyResult_TrailingNewline ==
  IF ~IsSome(rect) THEN [text |-> << >>, threw |-> FALSE]
  ELSE LET rc == The(rect)
           vis == visible
           cols == allCols
       IN IF rc.r1 >= Len(vis) \/ rc.c1 >= Len(cols) THEN [text |-> << >>, threw |-> TRUE]
          ELSE [text |->
                  Join([i \in 1..(rc.r1 - rc.r0 + 1) |->
                          Join([j \in 1..(rc.c1 - rc.c0 + 1) |->
                                  Stringify(vis[rc.r0 + i].row[cols[rc.c0 + j]])], TAB)], LF)
                  \o << LF >>,
                threw |-> FALSE]

\* doCopy(): the text it returns, or that it throws (visible[r] or allCols[c]
\* undefined for a cell of the rectangle)
CopyResult ==
  IF ~IsSome(rect) THEN [text |-> << >>, threw |-> FALSE]
  ELSE LET rc == The(rect)
           vis == visible
           cols == allCols
       IN IF rc.r1 >= Len(vis) \/ rc.c1 >= Len(cols) THEN [text |-> << >>, threw |-> TRUE]
          ELSE [text |->
                  Join([i \in 1..(rc.r1 - rc.r0 + 1) |->
                          Join([j \in 1..(rc.c1 - rc.c0 + 1) |->
                                  Stringify(vis[rc.r0 + i].row[cols[rc.c0 + j]])], TAB)], LF),
                threw |-> FALSE]

\* the CellChanges doPaste(data2D) collects, in order (columns have no parse)
PasteChanges(data2D) ==
  IF ~IsSome(rect) \/ ~hasOnPatch THEN << >>
  ELSE LET rc == The(rect)
           vis == visible
           cols == allCols
           firstLen == IF Len(data2D) > 0 THEN Len(data2D[1]) ELSE 1
           maxR == Min(rc.r0 + Len(data2D) - 1, Len(vis) - 1)
           maxC == Min(rc.c0 + firstLen - 1, Len(cols) - 1)
           cells == CellsOf(rc.r0, maxR, rc.c0, maxC)
           colOf(cell) == ColDefOf(cols[cell.c + 1])
           rowOf(cell) == vis[cell.r + 1].row
           parsedAt(cell) == Coerce(colOf(cell).type, TextAt(data2D, cell.r - rc.r0, cell.c - rc.c0))
           oldAt(cell) == rowOf(cell)[colOf(cell).id]
           rejected(cell) == colOf(cell).hasValidate
                             /\ ValidateFails(colOf(cell), parsedAt(cell), rowOf(cell))
           kept == SelectSeq(cells, LAMBDA cell : ~rejected(cell) /\ StrictNe(oldAt(cell), parsedAt(cell)))
       IN [i \in DOMAIN kept |->
             Change(rowOf(kept[i]).id, colOf(kept[i]).id, oldAt(kept[i]), parsedAt(kept[i]))]

\* clearSelectionWithDelete(): the CellChanges it emits before it ends or throws
\* (visible[r] or allCols[c] undefined), and whether it throws
DeleteResult ==
  IF ~IsSome(rect) \/ ~hasOnPatch THEN [changes |-> << >>, threw |-> FALSE]
  ELSE LET rc == The(rect)
           vis == visible
           cols == allCols
           cells == CellsOf(rc.r0, rc.r1, rc.c0, rc.c1)
           bad(k) == cells[k].r >= Len(vis) \/ cells[k].c >= Len(cols)
           firstBad == IF \E k \in DOMAIN cells : bad(k)
                       THEN CHOOSE k \in DOMAIN cells : bad(k) /\ \A j \in 1..(k - 1) : ~bad(j)
                       ELSE Len(cells) + 1
           done == SubSeq(cells, 1, firstBad - 1)
           colOf(cell) == ColDefOf(cols[cell.c + 1])
           rowOf(cell) == vis[cell.r + 1].row
           oldAt(cell) == rowOf(cell)[colOf(cell).id]
           kept == SelectSeq(done, LAMBDA cell : StrictNe(oldAt(cell), EmptyFor(colOf(cell).type)))
       IN [changes |-> [i \in DOMAIN kept |->
                          Change(rowOf(kept[i]).id, colOf(kept[i]).id,
                                 oldAt(kept[i]), EmptyFor(colOf(kept[i]).type))],
           threw |-> firstBad <= Len(cells)]

(***************************************************************************)
(* Tree mutations.                                                         *)
(***************************************************************************)
\* setParent(rowId, newParentId): the change requests it emits
SetParentPatches(rowId, newParent) ==
  IF ParentOf(rows, rowId) = newParent \/ ~hasOnPatch THEN << >>
  ELSE << Change(rowId, PARENT_COL_ID, ParentOf(rows, rowId), newParent) >>

(***************************************************************************)
(* The state after construction.                                           *)
(***************************************************************************)
\* rowHeight = 32, bodyHeight = 420
DefaultRowHeight == 32
DefaultBodyHeight == 420

\* rowVersion: data.rowVersion ?? 1
InitialVersion == 1

\* the calls of ActivityRepo.patch, and the fields they change
Calls == 1..MaxCalls
Fields == {"name", "durationDays"}

\* the activity as create(data) stored it; a field holds the number of the
\* call whose change it holds, 0 for the created value
Activity0 == [rowVersion |-> InitialVersion, name |-> 0, durationDays |-> 0]

\* a call that has not been made
IdleCall == [pc |-> "idle", field |-> "name", expected |-> None, next |-> Activity0]

\* the state the component is constructed in, for given props
InitView(ro, tm, ss, op, rs, rh, bh) ==
  /\ rowHeight = rh
  /\ bodyHeight = bh
  /\ scrollTop = 0
  /\ readonly = ro
  /\ treeMode = tm
  /\ showSummaries = ss
  /\ hasOnPatch = op
  /\ columns = [i \in DOMAIN ColumnDefs |-> ColumnDefs[i].id]
  /\ rows = rs
  /\ rows0 = rs
  /\ colOrder = [i \in DOMAIN ColumnDefs |-> ColumnDefs[i].id]
  /\ rowOrder = RowIdsOf(rs)
  /\ expanded = WithKids(rs, RowIdsOf(rs))
  /\ editing = None
  /\ rect = None
  /\ anchor = None
  /\ undoStack = << >>
  /\ redoStack = << >>
  /\ lastOp = "init"
  /\ emitted = << >>
  /\ commits = 0
  /\ ret = None
  /\ threw = FALSE
  /\ notified = None
  /\ clipboard = << >>
  /\ filters = [c \in ColIds |-> None]
  /\ dragRowIdx = None
  /\ dragColIdx = None
  /\ dragData = None
  /\ isDraggingRange = FALSE
  /\ dragStartRef = None
  /\ listener = [vis |-> visible, cols |-> allCols]
  /\ stored = Activity0
  /\ calls = [p \in Calls |-> IdleCall]
  /\ pending = << >>

\* the state after construction with the default row and body heights
InitWith(ro, tm, ss, op, rs) ==
  InitView(ro, tm, ss, op, rs, DefaultRowHeight, DefaultBodyHeight)

(***************************************************************************)
(* A handler's outcome: the host applies the change requests, then the     *)
(* effects on [rows] and [rowOrder, childrenOf] run.                       *)
(***************************************************************************)
\* the payload of onSelectionChange, onReorderRows(order), onReorderColumns(order)
SelectionEvent(rs, cs) == [event |-> "selectionChange", rows |-> rs, cols |-> cs]
ReorderRowsEvent(ro) == [event |-> "reorderRows", rows |-> ro, cols |-> << >>]
ReorderColumnsEvent(co) == [event |-> "reorderColumns", rows |-> << >>, cols |-> co]

\* what a drag handler leaves for the observer
ObserveDrag(op, ev) ==
  /\ lastOp' = op
  /\ emitted' = << >>
  /\ commits' = 0
  /\ ret' = None
  /\ threw' = FALSE
  /\ notified' = ev
  /\ clipboard' = clipboard
  /\ scrollTop' = scrollTop
  /\ filters' = filters
  /\ UNCHANGED << gesture, repo >>

ObserveEvent(op, patches, n, r, t, ev) ==
  /\ lastOp' = op
  /\ emitted' = patches
  /\ commits' = n
  /\ ret' = r
  /\ threw' = t
  /\ notified' = ev
  /\ clipboard' = clipboard
  /\ scrollTop' = scrollTop
  /\ filters' = filters
  /\ UNCHANGED << drag, gesture, repo >>

Observe(op, patches, n, r, t) == ObserveEvent(op, patches, n, r, t, None)

Settle(patches, ro, ex) ==
  /\ rows' = ApplyPatches(rows, patches)
  /\ rowOrder' = Reconcile(ro, RowIdsOf(rows'))
  /\ expanded' = IF patches # << >> \/ ro # rowOrder
                 THEN ExpandEffect(ex, rows', rowOrder')
                 ELSE ex
  /\ UNCHANGED << props, columns, rows0, colOrder >>

\* the row and column indices handlers are called with
Idx == (0 - 1)..MaxIdx
ColIdx == (0 - 1)..(MaxIdx - 1)

(***************************************************************************)
(* The handlers.                                                           *)
(***************************************************************************)
\* setSingle(r, c): pointer down on a cell, cursor keys, a caller
SetSingle(r, c) ==
  LET sr == SingleRect(r, c)
  IN /\ rect' = Some(sr)
     /\ anchor' = Some([r |-> sr.r0, c |-> sr.c0])
     /\ ObserveEvent("setSingle", << >>, 0, None, FALSE,
                     Some(SelectionEvent(<< sr.r0 >>, << sr.c0 >>)))
     /\ UNCHANGED << props, host, order, expanded, editing, hist >>

\* setRange(r, c): pointer enter while dragging, a caller
SetRange(r, c) ==
  LET sr == SingleRect(r, c)
  IN /\ IF ~IsSome(anchor)
        THEN /\ rect' = Some(sr)
             /\ anchor' = Some([r |-> sr.r0, c |-> sr.c0])
        ELSE /\ rect' = Some(RangeRect(The(anchor), r, c))
             /\ anchor' = anchor
     /\ LET rr == The(rect')
        IN ObserveEvent("setRange", << >>, 0, None, FALSE,
                        Some(SelectionEvent([i \in 1..(rr.r1 - rr.r0 + 1) |-> rr.r0 + i - 1],
                                            [i \in 1..(rr.c1 - rr.c0 + 1) |-> rr.c0 + i - 1])))
     /\ UNCHANGED << props, host, order, expanded, editing, hist >>

\* startEdit(rIdxAbs, cIdx): click, double click, Enter
StartEdit(r, c) ==
  /\ editing' = StartEditResult(r, c)
  /\ Observe("startEdit", << >>, 0, None, FALSE)
  /\ UNCHANGED << props, host, order, expanded, sel, hist >>

\* the editor's onChange: setEditing(e => e ? {...e, draft: d} : e)
SetDraft(d) ==
  /\ IsSome(editing)
  /\ d \in DraftsOf(The(editing).colId)
  /\ editing' = Some([The(editing) EXCEPT !.draft = d])
  /\ Observe("setDraft", << >>, 0, None, FALSE)
  /\ UNCHANGED << props, host, order, expanded, sel, hist >>

\* commitEdit(), called once: the editor's blur
CommitEdit ==
  LET res == CommitEditResult
      h == IF IsSome(res.pushed) THEN HistPush(undoStack, redoStack, The(res.pushed))
           ELSE [undo |-> undoStack, redo |-> redoStack]
  IN /\ Len(h.undo) <= MaxHist
     /\ editing' = res.editing
     /\ undoStack' = h.undo
     /\ redoStack' = h.redo
     /\ Observe("commitEdit", res.patches, res.commits, None, FALSE)
     /\ Settle(res.patches, rowOrder, expanded)
     /\ UNCHANGED sel

\* Enter pressed inside the open editor.  The editor's key handler calls
\* onEnter = commitEdit; the event then bubbles to the grid's handleKeyDown,
\* which belongs to the same render, still sees editing set and calls
\* commitEdit again with the same editing and the same rows.
EnterInEditor ==
  LET res == CommitEditResult
      once == IF IsSome(res.pushed) THEN HistPush(undoStack, redoStack, The(res.pushed))
              ELSE [undo |-> undoStack, redo |-> redoStack]
      twice == IF IsSome(res.pushed) THEN HistPush(once.undo, once.redo, The(res.pushed))
               ELSE once
  IN /\ IsSome(editing)
     /\ Len(twice.undo) <= MaxHist + 1
     /\ editing' = res.editing
     /\ undoStack' = twice.undo
     /\ redoStack' = twice.redo
     /\ Observe("enterInEditor", res.patches \o res.patches, res.commits + res.commits, None, FALSE)
     /\ Settle(res.patches \o res.patches, rowOrder, expanded)
     /\ UNCHANGED sel

\* cancelEdit(): Escape
CancelEdit ==
  /\ editing' = None
  /\ Observe("cancelEdit", << >>, 0, None, FALSE)
  /\ UNCHANGED << props, host, order, expanded, sel, hist >>

\* doPaste(data2D): the paste event
Paste(data2D) ==
  LET changes == PasteChanges(data2D)
      h == IF Len(changes) > 0 THEN HistPush(undoStack, redoStack, [changes |-> changes])
           ELSE [undo |-> undoStack, redo |-> redoStack]
  IN /\ Len(h.undo) <= MaxHist
     /\ undoStack' = h.undo
     /\ redoStack' = h.redo
     /\ Observe("paste", changes, IF Len(changes) > 0 THEN 1 ELSE 0, None, FALSE)
     /\ Settle(changes, rowOrder, expanded)
     /\ UNCHANGED << editing, sel >>

\* onPaste(e) with the text/plain data text: an empty text returns before
\* anything is parsed or pasted
PasteText(text) ==
  /\ text # << >>
  /\ Paste(ParseTSV(text))

\* onCopy(e): the clipboard gets doCopy()'s text unless that is empty
Copy ==
  LET res == CopyResult
  IN /\ clipboard' = IF res.threw \/ res.text = << >> THEN clipboard ELSE res.text
     /\ lastOp' = "copy"
     /\ emitted' = << >>
     /\ commits' = 0
     /\ ret' = IF res.threw THEN None ELSE Some(res.text)
     /\ threw' = res.threw
     /\ notified' = None
     /\ scrollTop' = scrollTop
     /\ filters' = filters
     /\ UNCHANGED << props, host, order, expanded, editing, sel, hist, drag, gesture, repo >>

\* the Delete key outside an edit session: clearSelectionWithDelete()
Delete ==
  LET res == DeleteResult
      pushes == ~res.threw /\ Len(res.changes) > 0
      h == IF pushes THEN HistPush(undoStack, redoStack, [changes |-> res.changes])
           ELSE [undo |-> undoStack, redo |-> redoStack]
  IN /\ ~IsSome(editing)
     /\ Len(h.undo) <= MaxHist
     /\ undoStack' = h.undo
     /\ redoStack' = h.redo
     /\ Observe("delete", res.changes, IF pushes THEN 1 ELSE 0, None, res.threw)
     /\ Settle(res.changes, rowOrder, expanded)
     /\ UNCHANGED << editing, sel >>

\* onUndo: const a = history.undo(); if (a) applyActionInverse(a)
Undo ==
  LET h == HistUndo(undoStack, redoStack)
      applies == IsSome(h.ret) /\ hasOnPatch
      patches == IF applies THEN InversePatches(The(h.ret)) ELSE << >>
  IN /\ undoStack' = h.undo
     /\ redoStack' = h.redo
     /\ Observe("undo", patches, IF applies THEN 1 ELSE 0, h.ret, FALSE)
     /\ Settle(patches, rowOrder, expanded)
     /\ UNCHANGED << editing, sel >>

\* onRedo: const a = history.redo(); if (a) applyActionForward(a)
Redo ==
  LET h == HistRedo(undoStack, redoStack)
      applies == IsSome(h.ret) /\ hasOnPatch
      patches == IF applies THEN ForwardPatches(The(h.ret)) ELSE << >>
  IN /\ undoStack' = h.undo
     /\ redoStack' = h.redo
     /\ Observe("redo", patches, IF applies THEN 1 ELSE 0, h.ret, FALSE)
     /\ Settle(patches, rowOrder, expanded)
     /\ UNCHANGED << editing, sel >>

\* toggleExpand(id): a click on the caret of a rendered parent
ToggleExpand(id) ==
  /\ treeMode
  /\ LET vis == visible IN \E i \in DOMAIN vis : vis[i].row.id = id /\ vis[i].hasChildren
  /\ expanded' = IF id \in expanded THEN expanded \ {id} ELSE expanded \cup {id}
  /\ Observe("toggleExpand", << >>, 0, None, FALSE)
  /\ UNCHANGED << props, host, order, editing, sel, hist >>

\* the row the structural operations are called on: visible[rect?.r0 ?? 0]
SelIdx == IF IsSome(rect) THEN The(rect).r0 ELSE 0

\* indentRow(rowId, selIdx) taking the nearest non-summary row after selIdx
IndentResult_Following(vis, rowId, selIdx) ==
  LET cand == { i \in (selIdx + 1)..(Len(vis) - 1) : ~vis[i + 1].isSummary }
      parentCandidate == vis[(CHOOSE i \in cand : \A j \in cand : i <= j) + 1].row.id
  IN IF cand = {} THEN [patches |-> << >>, expand |-> None]
     ELSE [patches |-> SetParentPatches(rowId, Str(parentCandidate)),
           expand |-> Some(parentCandidate)]

\* indentRow(rowId, selIdx) taking the nearest row before selIdx, summary or not
IndentResult_AnyRow(vis, rowId, selIdx) ==
  IF selIdx < 1 \/ selIdx > Len(vis) THEN [patches |-> << >>, expand |-> None]
  ELSE [patches |-> SetParentPatches(rowId, Str(vis[selIdx].row.id)),
        expand |-> Some(vis[selIdx].row.id)]

\* indentRow(rowId, selIdx) on the projection vis: the change requests it emits
\* and the parent it expands (None when it returns early)
IndentResult(vis, rowId, selIdx) ==
  LET cand == { i \in 0..(selIdx - 1) : i < Len(vis) /\ ~vis[i + 1].isSummary }
      parentCandidate == vis[(CHOOSE i \in cand : \A j \in cand : j <= i) + 1].row.id
  IN IF cand = {} THEN [patches |-> << >>, expand |-> None]
     ELSE [patches |-> SetParentPatches(rowId, Str(parentCandidate)),
           expand |-> Some(parentCandidate)]

\* outdentRow(rowId) making the row a root whatever is above its parent
OutdentPatches_ToRoot(rowId) ==
  IF ParentOf(rows, rowId) = Null THEN << >> ELSE SetParentPatches(rowId, Null)

\* outdentRow(rowId): the change requests it emits
OutdentPatches(rowId) ==
  LET parent == ParentOf(rows, rowId)
  IN IF parent = Null THEN << >> ELSE SetParentPatches(rowId, ParentOf(rows, parent.s))

\* indentRow(v.row.id, selIdx) on v = visible[selIdx], outside an edit session
IndentAt(selIdx) ==
  LET vis == visible
      res == IndentResult(vis, vis[selIdx + 1].row.id, selIdx)
  IN /\ treeMode
     /\ ~IsSome(editing)
     /\ selIdx >= 0 /\ selIdx < Len(vis)
     /\ Observe("indent", res.patches, 0, None, FALSE)
     /\ Settle(res.patches, rowOrder,
               IF IsSome(res.expand) THEN expanded \cup {The(res.expand)} ELSE expanded)
     /\ UNCHANGED << editing, sel, hist >>

\* outdentRow(v.row.id) on v = visible[selIdx], outside an edit session
OutdentAt(selIdx) ==
  LET vis == visible
      patches == OutdentPatches(vis[selIdx + 1].row.id)
  IN /\ treeMode
     /\ ~IsSome(editing)
     /\ selIdx >= 0 /\ selIdx < Len(vis)
     /\ Observe("outdent", patches, 0, None, FALSE)
     /\ Settle(patches, rowOrder, expanded)
     /\ UNCHANGED << editing, sel, hist >>

\* handleKeyDown's tree branch: indentRow(v.row.id, selIdx) on the selected row
Indent == IndentAt(SelIdx)

\* handleKeyDown's tree branch: outdentRow(v.row.id) on the selected row
Outdent == OutdentAt(SelIdx)

\* the host drops a row from props.rows
HostRemoveRow(id) ==
  /\ HasRow(rows, id)
  /\ rows' = SelectSeq(rows, LAMBDA r : r.id # id)
  /\ rowOrder' = Reconcile(rowOrder, RowIdsOf(rows'))
  /\ expanded' = ExpandEffect(expanded, rows', rowOrder')
  /\ Observe("hostRemoveRow", << >>, 0, None, FALSE)
  /\ UNCHANGED << props, columns, rows0, colOrder, editing, sel, hist >>

\* the host drops a column from props.columns
HostRemoveColumn(id) ==
  /\ id \in SeqToSet(columns)
  /\ columns' = SelectSeq(columns, LAMBDA c : c # id)
  /\ colOrder' = Reconcile(colOrder, columns')
  /\ Observe("hostRemoveColumn", << >>, 0, None, FALSE)
  /\ UNCHANGED << props, rows, rows0, rowOrder, expanded, editing, sel, hist >>

\* order.indexOf(id) + 1, 0 when the id is not in the order
PosIn(ro, id) ==
  IF id \in SeqToSet(ro)
  THEN CHOOSE i \in DOMAIN ro : ro[i] = id /\ \A j \in 1..(i - 1) : ro[j] # id
  ELSE 0

\* the two positions exchanged
MoveTo_Swap(ro, from, to) == [ro EXCEPT ![from] = ro[to], ![to] = ro[from]]

\* const [m] = next.splice(from, 1); next.splice(to, 0, m), positions from 1
MoveTo(ro, from, to) ==
  LET rest == [i \in 1..(Len(ro) - 1) |-> IF i < from THEN ro[i] ELSE ro[i + 1]]
  IN SubSeq(rest, 1, to - 1) \o << ro[from] >> \o SubSeq(rest, to, Len(rest))

\* a new row order is set: the effect on [rowOrder, childrenOf] runs
SettleOrder(ro) ==
  /\ rowOrder' = ro
  /\ expanded' = ExpandEffect(expanded, rows, ro)
  /\ UNCHANGED << props, columns, rows, rows0, colOrder >>

\* moveRowWithinParent(rowId, delta): the order it sets (None when it sets none)
MoveOrder(rowId, delta) ==
  LET parent == ParentOf(rows, rowId)
      idx == PosIn(rowOrder, rowId)
      cands == { j \in DOMAIN rowOrder :
                   /\ IF delta < 0 THEN j < idx ELSE j > idx
                   /\ ParentOf(rows, rowOrder[j]) = parent }
      j == IF delta < 0 THEN CHOOSE a \in cands : \A b \in cands : b <= a
           ELSE CHOOSE a \in cands : \A b \in cands : a <= b
  IN IF idx = 0 \/ cands = {} THEN None ELSE Some(MoveTo(rowOrder, idx, j))

\* moveRowWithinParent(v.row.id, delta) on v = visible[selIdx], outside an edit
\* session
MoveAt(selIdx, delta) ==
  LET vis == visible
      res == MoveOrder(vis[selIdx + 1].row.id, delta)
  IN /\ treeMode
     /\ ~IsSome(editing)
     /\ selIdx >= 0 /\ selIdx < Len(vis)
     /\ ObserveEvent("move", << >>, 0, None, FALSE,
                     IF IsSome(res) THEN Some(ReorderRowsEvent(The(res))) ELSE None)
     /\ IF IsSome(res) THEN SettleOrder(The(res))
        ELSE UNCHANGED << props, host, order, expanded >>
     /\ UNCHANGED << editing, sel, hist >>

\* handleKeyDown's tree branch: moveRowWithinParent(v.row.id, delta) on the
\* selected row
MoveWithinParent(delta) == MoveAt(SelIdx, delta)

\* onRowDrop(e, to) without the comparison of the two parents
DropOrder_AnyParent(from, to) ==
  LET vis == visible
      before == { i \in 0..(to - 1) : ~vis[i + 1].isSummary }
      inside == from >= 0 /\ from < Len(vis) /\ to >= 0 /\ to < Len(vis)
      hasTarget == inside /\ (vis[to + 1].isSummary => before # {})
      vTo == IF vis[to + 1].isSummary
             THEN vis[(CHOOSE i \in before : \A k \in before : k <= i) + 1]
             ELSE vis[to + 1]
      fromPos == PosIn(rowOrder, vis[from + 1].row.id)
      toPos == PosIn(rowOrder, vTo.row.id)
  IN IF from = to \/ ~hasTarget THEN None
     ELSE IF fromPos = 0 \/ toPos = 0 THEN None
     ELSE Some(MoveTo(rowOrder, fromPos, toPos))

\* onRowDrop(e, to) of the drag that started at index from: the order it sets
\* (None when it returns early)
DropOrder(from, to) ==
  LET vis == visible
      before == { i \in 0..(to - 1) : ~vis[i + 1].isSummary }
      inside == from >= 0 /\ from < Len(vis) /\ to >= 0 /\ to < Len(vis)
      hasTarget == inside /\ (vis[to + 1].isSummary => before # {})
      vTo == IF vis[to + 1].isSummary
             THEN vis[(CHOOSE i \in before : \A k \in before : k <= i) + 1]
             ELSE vis[to + 1]
      fromPos == PosIn(rowOrder, vis[from + 1].row.id)
      toPos == PosIn(rowOrder, vTo.row.id)
  IN IF from = to \/ ~hasTarget THEN None
     ELSE IF treeMode /\ ParentOf(rows, vis[from + 1].row.id) # ParentOf(rows, vTo.row.id)
     THEN None
     ELSE IF fromPos = 0 \/ toPos = 0 THEN None
     ELSE Some(MoveTo(rowOrder, fromPos, toPos))

\* a drag from the handle of the rendered row from, dropped on the rendered
\* row to: onRowDragStart(e, from), then onRowDrop(e, to). The gesture is taken
\* as a whole, dragstart included, so the index its drop reads is from; the
\* index it leaves pending is followed step by step by RowDragStart, DropOnRow
\* and DropOnHeader below
RowDrop(from, to) ==
  LET res == DropOrder(from, to)
  IN /\ from < rowCount /\ ~visible[from + 1].isSummary
     /\ ObserveEvent("rowDrop", << >>, 0, None, FALSE,
                     IF IsSome(res) THEN Some(ReorderRowsEvent(The(res))) ELSE None)
     /\ IF IsSome(res) THEN SettleOrder(The(res))
        ELSE UNCHANGED << props, host, order, expanded >>
     /\ UNCHANGED << editing, sel, hist >>

\* the host passes a new rows list: the effects on [rows] and on
\* [rowOrder, childrenOf] run
HostSetRows(rs) ==
  /\ rs # rows
  /\ rows' = rs
  /\ rowOrder' = Reconcile(rowOrder, RowIdsOf(rs))
  /\ expanded' = ExpandEffect(expanded, rows', rowOrder')
  /\ Observe("hostSetRows", << >>, 0, None, FALSE)
  /\ UNCHANGED << props, columns, rows0, colOrder, editing, sel, hist >>

\* the host passes a new columns list: the effect on [columns] runs
HostSetColumns(cs) ==
  /\ cs # columns
  /\ columns' = cs
  /\ colOrder' = Reconcile(colOrder, cs)
  /\ Observe("hostSetColumns", << >>, 0, None, FALSE)
  /\ UNCHANGED << props, rows, rows0, rowOrder, expanded, editing, sel, hist >>

\* a header drop that exchanges the two columns
HeaderDrop_Exchange(from, to) ==
  /\ from < Len(colOrder) /\ to < Len(colOrder)
  /\ colOrder' = [colOrder EXCEPT ![from + 1] = colOrder[to + 1], ![to + 1] = colOrder[from + 1]]
  /\ ObserveEvent("headerDrop", << >>, 0, None, FALSE,
                  IF from = to THEN None ELSE Some(ReorderColumnsEvent(colOrder')))
  /\ UNCHANGED << props, host, rowOrder, expanded, editing, sel, hist >>

\* a drag from the header cell from, dropped on the header cell to:
\* onHeaderDragStart(e, from), then onHeaderDrop(e, to), the gesture taken as a
\* whole like RowDrop
HeaderDrop(from, to) ==
  /\ from < Len(colOrder) /\ to < Len(colOrder)
  /\ colOrder' = IF from = to THEN colOrder ELSE MoveTo(colOrder, from + 1, to + 1)
  /\ ObserveEvent("headerDrop", << >>, 0, None, FALSE,
                  IF from = to THEN None ELSE Some(ReorderColumnsEvent(colOrder')))
  /\ UNCHANGED << props, host, rowOrder, expanded, editing, sel, hist >>

\* onScroll: the body was scrolled to the offset y, one the browser allows for
\* the content it holds
Scroll(y) ==
  /\ y >= 0 /\ y <= Max(0, contentHeight - bodyHeight)
  /\ y # scrollTop
  /\ scrollTop' = y
  /\ lastOp' = "scroll"
  /\ emitted' = << >>
  /\ commits' = 0
  /\ ret' = None
  /\ threw' = FALSE
  /\ notified' = None
  /\ clipboard' = clipboard
  /\ filters' = filters
  /\ UNCHANGED << props, host, order, expanded, editing, sel, hist, drag, gesture, repo >>

(***************************************************************************)
(* The grid under mutation: an editable tree grid of a parent and a child  *)
(* row whose host listens to change requests.  The user selects rendered   *)
(* cells by the pointer, edits the selected cell (Enter, typing, Enter or  *)
(* Escape; the clipboard and history keys work inside a session too),      *)
(* pastes, clears, undoes, redoes, collapses, expands, and the selected row *)
(* is indented and outdented.                                              *)
(***************************************************************************)
Init == InitWith(FALSE, TRUE, TRUE, TRUE, SubSeq(InitRows, 1, 2))

\* Enter outside an edit session: if (rect) startEdit(rect.r0, rect.c0)
EnterKey ==
  /\ IsSome(rect)
  /\ ~IsSome(editing)
  /\ StartEdit(The(rect).r0, The(rect).c0)

\* onCellMouseDown(e, rAbs, cIdx) on a rendered cell outside an edit session
\* (inside one, the focus it moves blurs the editor, which commits first)
CellMouseDown(r, c) ==
  /\ ~IsSome(editing)
  /\ SetSingle(r, c)

Next ==
  \/ \E r \in 0..(rowCount - 1), c \in 0..(colCount - 1) : CellMouseDown(r, c)
  \/ EnterKey
  \/ \E d \in DraftsOf("name") \cup DraftsOf("qty") : SetDraft(d)
  \/ CommitEdit
  \/ CancelEdit
  \/ \E m \in PasteMatrices : Paste(m)
  \/ Delete
  \/ Undo
  \/ Redo
  \/ \E id \in RowIds : ToggleExpand(id)
  \/ Indent
  \/ Outdent

Spec == Init /\ [][Next]_vars

RECURSIVE Replay(_, _)
\* the rows a verbatim host holds after the actions of stack, applied forward in
\* order to the rows rs
Replay(rs, stack) ==
  IF stack = << >> THEN rs
  ELSE Replay(ApplyPatches(rs, ForwardPatches(Head(stack))), Tail(stack))

\* C7: in every reachable state, applying the actions of undoStack in order,
\* forward, to the initial rows yields exactly the host's current rows.
C7_ReplayYieldsRows == Replay(rows0, undoStack) = rows

\* C8: an undo emits one change request per CellChange of the action on top of
\* undoStack, in list order, with oldValue and nextValue swapped; a redo emits
\* one per CellChange of the action on top of redoStack, in list order, as
\* recorded.
C8_UndoRedoEmitInOrder ==
  [][  /\ (lastOp' = "undo" /\ undoStack # << >>) =>
          LET a == Last(undoStack)
          IN /\ Len(emitted') = Len(a.changes)
             /\ \A i \in DOMAIN a.changes :
                   emitted'[i] = [rowId |-> a.changes[i].rowId, colId |-> a.changes[i].colId,
                                  oldValue |-> a.changes[i].nextValue,
                                  nextValue |-> a.changes[i].oldValue]
       /\ (lastOp' = "redo" /\ redoStack # << >>) =>
          LET a == Last(redoStack)
          IN /\ Len(emitted') = Len(a.changes)
             /\ \A i \in DOMAIN a.changes :
                   emitted'[i] = [rowId |-> a.changes[i].rowId, colId |-> a.changes[i].colId,
                                  oldValue |-> a.changes[i].oldValue,
                                  nextValue |-> a.changes[i].nextValue]]_vars

\* an action of several changes has been undone and redone
C8_Witness ==
  /\ lastOp = "redo"
  /\ Len(emitted) >= 2
  /\ undoStack # << >>
  /\ emitted = Last(undoStack).changes

\* C9: a reparent by indent or outdent is pushed on the history, the undo that
\* follows it directly emits the inverse parentId change request of that row,
\* and the redo after that emits the reparent again.
C9_ReparentIsUndoable ==
  [][  /\ (lastOp' \in {"indent", "outdent"} /\ emitted' # << >>) =>
          undoStack' = Append(undoStack, [changes |-> emitted'])
       /\ (lastOp \in {"indent", "outdent"} /\ emitted # << >> /\ lastOp' = "undo") =>
          emitted' = << Change(emitted[1].rowId, PARENT_COL_ID,
                               emitted[1].nextValue, emitted[1].oldValue) >>]_vars

(***************************************************************************)
(* The selection model under a changing grid: callers select any cell      *)
(* index, the user collapses and expands parents, the host drops rows and  *)
(* columns.                                                                *)
(***************************************************************************)
InitSelection ==
  \E tm \in BOOLEAN, ss \in BOOLEAN : InitWith(FALSE, tm, ss, TRUE, InitRows)

NextSelection ==
  \/ \E r \in Idx, c \in ColIdx : SetSingle(r, c)
  \/ \E r \in Idx, c \in ColIdx : SetRange(r, c)
  \/ \E id \in RowIds : ToggleExpand(id)
  \/ \E id \in RowIds : HostRemoveRow(id)
  \/ \E id \in ColIds : HostRemoveColumn(id)

SpecSelection == InitSelection /\ [][NextSelection]_vars

\* C1: whenever there is a selection rectangle, it lies inside the current
\* visible grid: 0 <= r0 <= r1 < rowCount and 0 <= c0 <= c1 < colCount.
C1_RectInsideGrid ==
  IsSome(rect) =>
    /\ 0 <= The(rect).r0 /\ The(rect).r0 <= The(rect).r1 /\ The(rect).r1 < rowCount
    /\ 0 <= The(rect).c0 /\ The(rect).c0 <= The(rect).c1 /\ The(rect).c1 < colCount

(***************************************************************************)
(* Edit sessions: the user opens, types into, commits and cancels edit     *)
(* sessions on any cell index, on grids of every configuration, while      *)
(* parents collapse and the host drops rows and columns.                   *)
(***************************************************************************)
InitEditing ==
  \E ro \in BOOLEAN, tm \in BOOLEAN : InitWith(ro, tm, TRUE, TRUE, InitRows)

NextEditing ==
  \/ \E r \in Idx, c \in ColIdx : StartEdit(r, c)
  \/ \E d \in DraftsOf("name") \cup DraftsOf("qty") : SetDraft(d)
  \/ CommitEdit
  \/ CancelEdit
  \/ \E id \in RowIds : ToggleExpand(id)
  \/ \E id \in RowIds : HostRemoveRow(id)
  \/ \E id \in ColIds : HostRemoveColumn(id)

SpecEditing == InitEditing /\ [][NextEditing]_vars

\* startEdit's conditions, in the words of its contract: the grid is not
\* read-only, the target visible row and column exist, the row is no summary
\* row, and the column's editable predicate, when defined, holds of the row
MayEdit(vis, cols, r, c) ==
  /\ ~readonly
  /\ r \in 0..(Len(vis) - 1) /\ c \in 0..(Len(cols) - 1)
  /\ vis[r + 1].row.type # "summary"
  /\ (ColDefOf(cols[c + 1]).hasEditable => ~vis[r + 1].row.locked)

\* sessions opened, committed as they are and cancelled while rows collapse
\* and the host removes rows and columns: the draft is never changed, so no
\* commit changes a value
NextStartEdit ==
  \/ \E r \in Idx, c \in ColIdx : StartEdit(r, c)
  \/ CommitEdit
  \/ CancelEdit
  \/ \E id \in RowIds : ToggleExpand(id)
  \/ \E id \in RowIds : HostRemoveRow(id)
  \/ \E id \in ColIds : HostRemoveColumn(id)

SpecStartEdit == InitEditing /\ [][NextStartEdit]_vars

EditRow == RowOf(rows, The(editing).rowId)
EditCol == ColDefOf(The(editing).colId)
EditStored == EditRow[The(editing).colId]
EditChange == Change(The(editing).rowId, The(editing).colId, EditStored, The(editing).draft)
EditRejected == EditCol.hasValidate /\ ValidateFails(EditCol, The(editing).draft, EditRow)

\* a commit of an open session on a row the host still has, by a host that listens
CommitStep ==
  lastOp' = "commitEdit" /\ IsSome(editing) /\ HasRow(rows, The(editing).rowId) /\ hasOnPatch

\* C2: a commit that passes validation emits one change request and pushes one
\* one-change HistoryAction when the draft differs from the stored value, and
\* emits nothing and pushes nothing when the draft equals the stored value.
C2_CommitPushesIffChanged ==
  [][(CommitStep /\ ~EditRejected) =>
       IF StrictNe(EditStored, The(editing).draft)
       THEN emitted' = << EditChange >>
            /\ undoStack' = Append(undoStack, [changes |-> << EditChange >>])
       ELSE emitted' = << >> /\ undoStack' = undoStack]_vars

\* C3: a commit whose validator rejects the draft is aborted: the session stays
\* as it is, nothing is emitted, nothing is pushed, no commit event fires.
C3_RejectedCommitAborts ==
  [][(CommitStep /\ EditRejected) =>
       /\ editing' = editing
       /\ emitted' = << >>
       /\ undoStack' = undoStack
       /\ commits' = 0]_vars

(***************************************************************************)
(* Paste on a changing grid: the user selects rendered cells and pastes,   *)
(* undoes, collapses and expands parents; the host drops rows and columns, *)
(* which leaves selections behind that point outside the grid.             *)
(***************************************************************************)
InitPaste == \E tm \in BOOLEAN : InitWith(FALSE, tm, TRUE, TRUE, InitRows)

NextPaste ==
  \/ \E r \in 0..(rowCount - 1), c \in 0..(colCount - 1) : SetSingle(r, c)
  \/ \E m \in PasteMatrices : Paste(m)
  \/ Undo
  \/ \E id \in RowIds : ToggleExpand(id)
  \/ \E id \in RowIds : HostRemoveRow(id)
  \/ \E id \in ColIds : HostRemoveColumn(id)

SpecPaste == InitPaste /\ [][NextPaste]_vars

\* what C10 says of the change requests of a paste, of the host's rows and of
\* the two orders
PasteKeepsToClip ==
  LET vis == visible
      cols == allCols
  IN /\ RowIdsOf(rows') = RowIdsOf(rows)
     /\ rowOrder' = rowOrder
     /\ colOrder' = colOrder
     /\ (~IsSome(rect) => emitted' = << >>)
     /\ IsSome(rect) =>
          \A m \in PasteMatrices :
            (emitted' = PasteChanges(m)) =>
              \A i \in DOMAIN emitted' :
                \E r \in The(rect).r0..Min(The(rect).r0 + Len(m) - 1, Len(vis) - 1),
                   c \in The(rect).c0..Min(The(rect).c0 + Len(m[1]) - 1, Len(cols) - 1) :
                  /\ emitted'[i].rowId = vis[r + 1].row.id
                  /\ emitted'[i].colId = cols[c + 1]
                  /\ emitted'[i].nextValue =
                       Coerce(ColDefOf(cols[c + 1]).type,
                              m[r - The(rect).r0 + 1][c - The(rect).c0 + 1])

\* C10: a paste of an M x N matrix on a selection whose top-left is (r0, c0)
\* emits change requests only for cells (r, c) with r0 <= r <= min(r0+M-1,
\* rowCount-1) and c0 <= c <= min(c0+N-1, colCount-1), each carrying the text of
\* the matrix at (r-r0, c-c0), and leaves the row count, the row order and the
\* column order as they are.
C10_PasteStaysInsideGrid ==
  [][lastOp' = "paste" =>
       /\ PasteKeepsToClip
       /\ Len(visible') = rowCount
       /\ Len(allCols') = colCount]_vars

\* the part of C10 that does not depend on the expansion set: the change
\* requests stay inside the clip, and the host's rows, the row order and the
\* column order are as before
C10_PasteClipped == [][lastOp' = "paste" => PasteKeepsToClip]_vars

(***************************************************************************)
(* Copy and paste through the clipboard: on a flat grid of two rows the     *)
(* user selects rendered cells and ranges, copies, and pastes the          *)
(* clipboard or a text from another application.                           *)
(***************************************************************************)
\* the texts other applications put on the clipboard: those of PasteTexts, and
\* '1<LF>' and '1<CR><LF>'
ClipTexts ==
  PasteTexts \cup { << "1", LF >>, << "1", CR, LF >> }

ClipRows == << InitRows[1], InitRows[3] >>

InitClipboard == InitWith(FALSE, FALSE, TRUE, TRUE, ClipRows)

NextClipboard ==
  \/ \E r \in 0..(rowCount - 1), c \in 0..(colCount - 1) : SetSingle(r, c)
  \/ \E r \in 0..(rowCount - 1), c \in 0..(colCount - 1) : SetRange(r, c)
  \/ Copy
  \/ \E t \in ClipTexts \cup {clipboard} : PasteText(t)

SpecClipboard == InitClipboard /\ [][NextClipboard]_vars

RECURSIVE SurvivorsOfRow(_, _, _, _, _, _), SurvivorsFrom(_, _, _, _, _, _)
\* the changes of the cells of visible row r, columns c..maxC, that survive a
\* paste of m on rectangle rc: the column's validator, if it has one, accepts
\* the parsed value, and the parsed value is not the cell's current value
SurvivorsOfRow(m, rc, vis, cols, r, c) ==
  IF c > Min(rc.c0 + Len(m[1]) - 1, Len(cols) - 1) THEN << >>
  ELSE LET col == ColDefOf(cols[c + 1])
           row == vis[r + 1].row
           parsed == Coerce(col.type, TextAt(m, r - rc.r0, c - rc.c0))
           survives == /\ ~(col.hasValidate /\ ValidateFails(col, parsed, row))
                       /\ StrictNe(row[col.id], parsed)
       IN (IF survives THEN << Change(row.id, col.id, row[col.id], parsed) >> ELSE << >>)
          \o SurvivorsOfRow(m, rc, vis, cols, r, c + 1)

\* the same for the visible rows r.., row by row
SurvivorsFrom(m, rc, vis, cols, r, c) ==
  IF r > Min(rc.r0 + Len(m) - 1, Len(vis) - 1) THEN << >>
  ELSE SurvivorsOfRow(m, rc, vis, cols, r, c) \o SurvivorsFrom(m, rc, vis, cols, r + 1, c)

\* C11: a paste emits one change request for every cell of its clip that is
\* neither rejected by the validator nor unchanged, in row-major order, skipping
\* the others without stopping; the surviving changes form one HistoryAction
\* that is pushed, followed by one commit event; when no cell survives nothing
\* is pushed and no commit event fires.
C11_PasteSkipsAndGroups ==
  [][lastOp' = "paste" =>
       LET vis == visible
           cols == allCols
       IN \A t \in ClipTexts \cup {clipboard} :
            (emitted' = PasteChanges(ParseTSV(t))) =>
              LET survivors == IF IsSome(rect)
                               THEN SurvivorsFrom(ParseTSV(t), The(rect), vis, cols,
                                                  The(rect).r0, The(rect).c0)
                               ELSE << >>
              IN /\ emitted' = survivors
                 /\ IF survivors # << >>
                    THEN /\ undoStack' = Append(undoStack, [changes |-> survivors])
                         /\ commits' = 1
                    ELSE undoStack' = undoStack /\ commits' = 0]_vars

\* a paste at the first cell has written the first cell, skipped the second,
\* which the validator rejects, skipped the unchanged first cell of the next
\* row and written its second cell, all as one action
C11_Witness ==
  /\ lastOp = "paste"
  /\ IsSome(rect)
  /\ The(rect).r0 = 0 /\ The(rect).c0 = 0
  /\ Len(emitted) = 2
  /\ emitted[1].colId = "name" /\ emitted[1].rowId = visible[1].row.id
  /\ emitted[2].colId = "qty" /\ emitted[2].rowId = visible[2].row.id
  /\ undoStack = << [changes |-> emitted] >>
  /\ commits = 1

\* the strings of the cells of a rectangle, row by row, as doCopy reads them
StringsOf(rc, vis, cols) ==
  [i \in 1..(rc.r1 - rc.r0 + 1) |->
     [j \in 1..(rc.c1 - rc.c0 + 1) |->
        FieldString(Stringify(vis[rc.r0 + i].row[cols[rc.c0 + j]]))]]

\* C12: parsing the text a copy of the rectangle R returned gives back the
\* strings of the cells of R, one row per row of R and one entry per column
\* of R, also when a row of R, or a single-column R, holds only empty strings
C12_CopyParsesBack ==
  (lastOp = "copy" /\ IsSome(rect) /\ ~threw) =>
     ParseTSV(The(ret)) = StringsOf(The(rect), visible, allCols)

\* C12, the rectangles of two or more columns: they do parse back
C12_WideCopyParsesBack ==
  (lastOp = "copy" /\ IsSome(rect) /\ ~threw /\ The(rect).c1 > The(rect).c0) =>
     ParseTSV(The(ret)) = StringsOf(The(rect), visible, allCols)

\* the text ends with one newline, '\n' or '\r\n', after a non-empty last line
EndsWithOneNewline(text) ==
  LET t == SelectSeq(text, LAMBDA x : x # CR)
  IN Len(t) >= 2 /\ t[Len(t)] = LF /\ t[Len(t) - 1] # LF

\* the lines of a text before its trailing newline
ContentLines(text) ==
  Split(Front(SelectSeq(text, LAMBDA x : x # CR)), LF)

\* C13: a text that ends with a single trailing newline parses to exactly its
\* content lines, and pasting it writes to no more rows than it has content
\* lines
C13_TrailingNewlineAddsNoRow ==
  [][lastOp' = "paste" =>
       \A t \in ClipTexts \cup {clipboard} :
          (EndsWithOneNewline(t) /\ PasteText(t)) =>
             /\ Len(ParseTSV(t)) = Len(ContentLines(t))
             /\ \A i \in DOMAIN emitted' :
                  \E k \in 1..Len(ContentLines(t)) :
                     /\ The(rect).r0 + k <= Len(visible)
                     /\ emitted'[i].rowId = visible[The(rect).r0 + k].row.id]_vars

\* C14: the text of a copy has one line per row of the rectangle, separated by
\* newlines with none after the last line; each line has one field per column
\* of the rectangle, separated by tabs; a field is the string of its cell, the
\* empty string for null and undefined; without a selection the text is empty
C14_CopyText ==
  (lastOp = "copy" /\ ~threw) =>
     IF ~IsSome(rect) THEN The(ret) = << >>
     ELSE LET rc == The(rect)
              vis == visible
              cols == allCols
              lines == Split(The(ret), LF)
          IN /\ Len(lines) = rc.r1 - rc.r0 + 1
             /\ \A i \in DOMAIN lines :
                  LET fields == Split(lines[i], TAB)
                  IN /\ Len(fields) = rc.c1 - rc.c0 + 1
                     /\ \A j \in DOMAIN fields :
                          LET val == vis[rc.r0 + i].row[cols[rc.c0 + j]]
                          IN FieldString(fields[j]) =
                               IF val = Undef \/ val = Null THEN ""
                               ELSE FieldString(Stringify(val))

\* the whole grid was copied: two lines of two fields, the last field empty
\* for the undefined quantity of the second row
C14_Witness ==
  /\ lastOp = "copy"
  /\ rect = Some([r0 |-> 0, r1 |-> 1, c0 |-> 0, c1 |-> 1])
  /\ visible[2].row.qty = Undef
  /\ ret = Some(<< "a", TAB, "1", LF, "a", TAB >>)
  /\ clipboard = The(ret)

(***************************************************************************)
(* The tree: a tree grid of a parent with a child and either a summary     *)
(* row, shown or hidden, or a second root.  The user collapses and expands *)
(* parents and drags rows onto rows; rendered rows are indented, outdented *)
(* and moved among their siblings; the host applies every change request   *)
(* and may drop rows.                                                      *)
(***************************************************************************)
DataRows == << InitRows[1], InitRows[2], [InitRows[1] EXCEPT !.id = "r4"] >>

TreeRowIds == RowIds \cup { DataRows[i].id : i \in DOMAIN DataRows }

InitTree ==
  \E ss \in BOOLEAN, rs \in {InitRows, DataRows} : InitWith(FALSE, TRUE, ss, TRUE, rs)

NextTree ==
  \/ \E id \in TreeRowIds : ToggleExpand(id)
  \/ \E i \in 0..(rowCount - 1) : IndentAt(i)
  \/ \E i \in 0..(rowCount - 1) : OutdentAt(i)
  \/ \E i \in 0..(rowCount - 1), delta \in {0 - 1, 1} : MoveAt(i, delta)
  \/ \E from \in 0..(rowCount - 1), to \in 0..(rowCount - 1) : RowDrop(from, to)
  \/ \E id \in TreeRowIds : HostRemoveRow(id)

SpecTree == InitTree /\ [][NextTree]_vars

RECURSIVE PathOf(_, _, _)
\* the ids from a root (a row whose parent id is null) down to the row id, the
\* empty sequence when the row is missing or no root is above it
PathOf(rs, id, fuel) ==
  IF fuel = 0 \/ ~HasRow(rs, id) THEN << >>
  ELSE IF ParentOf(rs, id) = Null THEN << id >>
  ELSE LET up == PathOf(rs, ParentOf(rs, id).s, fuel - 1)
       IN IF up = << >> THEN << >> ELSE Append(up, id)

\* the row precedes the other in the pre-order traversal: it is an ancestor
\* of it, or where their paths part its side comes first in the row order
PreorderBefore(ro, pa, pb) ==
  \/ Len(pa) < Len(pb) /\ SubSeq(pb, 1, Len(pa)) = pa
  \/ \E k \in 1..Min(Len(pa), Len(pb)) :
        /\ SubSeq(pa, 1, k - 1) = SubSeq(pb, 1, k - 1)
        /\ pa[k] # pb[k]
        /\ PosIn(ro, pa[k]) < PosIn(ro, pb[k])

\* C15: in tree mode the projection lists exactly the rows that hang under a
\* root by a chain of expanded rows (summary rows only when they are shown),
\* each once, in pre-order with siblings in row order; a listed row's level
\* is its depth and its hasChildren flag tells whether a current row names it
\* as its parent
C15_ProjectionIsPreorder ==
  treeMode =>
    LET vis == visible
        path(id) == PathOf(rows, id, Len(rows))
        listed == { id \in SeqToSet(RowIdsOf(rows)) :
                      /\ path(id) # << >>
                      /\ \A k \in 1..(Len(path(id)) - 1) : path(id)[k] \in expanded
                      /\ showSummaries \/ ~IsSummaryRow(RowOf(rows, id)) }
    IN /\ { vis[i].row.id : i \in DOMAIN vis } = listed
       /\ Len(vis) = Cardinality(listed)
       /\ \A i, j \in DOMAIN vis :
            i < j => PreorderBefore(rowOrder, path(vis[i].row.id), path(vis[j].row.id))
       /\ \A i \in DOMAIN vis :
            /\ vis[i].row = RowOf(rows, vis[i].row.id)
            /\ vis[i].level = Len(path(vis[i].row.id)) - 1
            /\ vis[i].hasChildren =
                  (\E k \in DOMAIN rows : GetParentId(rows[k]) = Str(vis[i].row.id))
            /\ vis[i].isSummary = IsSummaryRow(vis[i].row)

\* a root, under it a collapsed child that has a child of its own: the
\* projection ends at the collapsed row
C15_Witness ==
  /\ treeMode
  /\ Len(rows) = 3
  /\ Len(visible) = 2
  /\ visible[1].level = 0
  /\ visible[2].level = 1
  /\ visible[2].hasChildren
  /\ visible[2].row.id \notin expanded

\* C16: a parent the user has collapsed stays out of the expansion set through
\* every step that is neither a toggle nor an indent
C16_CollapsedStaysCollapsed ==
  [][\A id \in RowIds :
       (/\ id \in WithKids(rows, rowOrder)
        /\ id \notin expanded
        /\ lastOp' \notin {"toggleExpand", "indent"}) => id \notin expanded']_vars

(***************************************************************************)
(* The orders: a flat grid whose host passes new row lists and new column  *)
(* lists, rows and columns added, removed and reordered, while the user    *)
(* drags rows and headers to other positions.                              *)
(***************************************************************************)
\* the rows the host draws its lists from
RowPool == InitRows \o << [InitRows[1] EXCEPT !.id = "r4"] >>

\* the lists of at most MaxRows distinct elements of a pool
ListsOf(pool) ==
  LET picks == UNION { [1..k -> DOMAIN pool] : k \in 0..Min(MaxRows, Len(pool)) }
      distinct == { f \in picks : \A i, j \in DOMAIN f : i # j => f[i] # f[j] }
  IN { [i \in DOMAIN f |-> pool[f[i]]] : f \in distinct }

HostRowLists == ListsOf(RowPool)

HostColumnLists == ListsOf([i \in DOMAIN ColumnDefs |-> ColumnDefs[i].id])

InitOrder == InitWith(FALSE, FALSE, TRUE, TRUE, SubSeq(RowPool, 1, 3))

NextOrder ==
  \/ \E rs \in HostRowLists : HostSetRows(rs)
  \/ \E cs \in HostColumnLists : HostSetColumns(cs)
  \/ \E from \in 0..(rowCount - 1), to \in 0..(rowCount - 1) : RowDrop(from, to)
  \/ \E from \in 0..(colCount - 1), to \in 0..(colCount - 1) : HeaderDrop(from, to)

SpecOrder == InitOrder /\ [][NextOrder]_vars

\* the order new holds exactly the ids of inc, each once; the ids it shares
\* with the order old stand as they stood in old; the ids old did not hold
\* come after those, as they stand in inc; reconciling once more changes
\* nothing
Reconciled(old, inc, new) ==
  \A passed \in { SeqToSet(inc) }, held \in { SeqToSet(old) } :
     /\ SeqToSet(new) = passed
     /\ Len(new) = Cardinality(passed)
     /\ \A a, b \in passed :
          a # b =>
            LET keptA == a \in held
                keptB == b \in held
            IN /\ (keptA /\ keptB /\ PosIn(old, a) < PosIn(old, b)) => PosIn(new, a) < PosIn(new, b)
               /\ (keptA /\ ~keptB) => PosIn(new, a) < PosIn(new, b)
               /\ (~keptA /\ ~keptB /\ PosIn(inc, a) < PosIn(inc, b)) => PosIn(new, a) < PosIn(new, b)
     /\ Reconcile(new, inc) = new

\* C17: after the host passed new rows (new columns) the row order (column
\* order) is the reconciliation of the order before with the ids passed
C17_ReconcileKeepsAppendsDrops ==
  [][/\ lastOp' = "hostSetRows" => Reconciled(rowOrder, RowIdsOf(rows'), rowOrder')
     /\ lastOp' = "hostSetColumns" => Reconciled(colOrder, columns', colOrder')]_vars

\* the user had put r3 before r1; the host then dropped r2 and passed r4 and
\* r1 and r3: r3 and r1 stay as the user put them and r4 comes last
C17_Witness ==
  /\ lastOp = "hostSetRows"
  /\ RowIdsOf(rows) = << "r4", "r1", "r3" >>
  /\ rowOrder = << "r3", "r1", "r4" >>

RECURSIVE Up(_, _, _)
\* the n-th row above the row id by the parent ids: its parent for n = 1;
\* Null when the chain ends before
Up(rs, id, n) ==
  IF n = 0 THEN Str(id)
  ELSE LET below == Up(rs, id, n - 1)
       IN IF below = Null THEN Null ELSE ParentOf(rs, below.s)

\* C18: no row is its own parent or ancestor
C18_NoCycle ==
  \A i \in DOMAIN rows : \A n \in 1..Len(rows) : Up(rows, rows[i].id, n) # Str(rows[i].id)

\* an indent has put a row under a row that has a parent itself
C18_Witness ==
  /\ lastOp = "indent"
  /\ Len(emitted) = 1
  /\ Up(rows, emitted[1].rowId, 1) = emitted[1].nextValue
  /\ Up(rows, emitted[1].rowId, 2) # Null

\* the indices of the projection that hold the nearest non-summary row before
\* index i: one index, or none
NearestBefore(vis, i) ==
  { k \in 0..(i - 1) : /\ ~vis[k + 1].isSummary
                        /\ \A j \in (k + 1)..(i - 1) : vis[j + 1].isSummary }

\* what an indent of the rendered row i has to leave behind: the row under
\* the nearest non-summary row before it and that row expanded, one change
\* request emitted (none, unless always, when that row is its parent already);
\* nothing changed when there is no such row
IndentLeaves(i, always) ==
  LET vis == visible
      rowId == vis[i + 1].row.id
      near == NearestBefore(vis, i)
  IN IF near = {}
     THEN emitted' = << >> /\ UNCHANGED << rows, rowOrder, expanded >>
     ELSE LET parent == vis[(CHOOSE k \in near : TRUE) + 1].row.id
          IN /\ emitted' =
                  IF ~always /\ ParentOf(rows, rowId) = Str(parent) THEN << >>
                  ELSE << Change(rowId, PARENT_COL_ID, ParentOf(rows, rowId), Str(parent)) >>
             /\ ParentOf(rows', rowId) = Str(parent)
             /\ parent \in expanded'
             /\ \A k \in DOMAIN rows : rows[k].id # rowId => rows'[k] = rows[k]
             /\ rowOrder' = rowOrder

\* C19, as stated: an indent emits one parent id change request, the old
\* parent to the nearest non-summary row before the row, whenever there is
\* such a row
C19_IndentAlwaysEmits ==
  [][lastOp' = "indent" =>
       \A i \in 0..(rowCount - 1) :
          IndentAt(i) => IndentLeaves(i, TRUE)]_vars

\* C19: an indent puts the row under the nearest non-summary row before it
\* and expands that row; it emits one parent id change request, the old
\* parent to the new, unless that row is the row's parent already, and then
\* it emits nothing; with no non-summary row before the row nothing is
\* emitted and nothing changes
C19_IndentReparentsToNearest ==
  [][lastOp' = "indent" =>
       \A i \in 0..(rowCount - 1) :
          IndentAt(i) => IndentLeaves(i, FALSE)]_vars

\* r4 was the second child of r1, after r2: its indent has put it under r2
\* and r2 is expanded
C19_Witness ==
  /\ lastOp = "indent"
  /\ emitted = << Change("r4", PARENT_COL_ID, Str("r1"), Str("r2")) >>
  /\ ParentOf(rows, "r4") = Str("r2")
  /\ ParentOf(rows, "r2") = Str("r1")
  /\ "r2" \in expanded

\* C20: an outdent of a row that has a parent emits exactly one parent id
\* change request, the parent to the parent's own parent (null when the
\* parent has none); an outdent of a root emits nothing and changes no state;
\* no outdent changes the row order
C20_OutdentPromotesOneLevel ==
  [][lastOp' = "outdent" =>
       \A i \in 0..(rowCount - 1) :
          OutdentAt(i) =>
            LET rowId == visible[i + 1].row.id
                parent == ParentOf(rows, rowId)
            IN /\ rowOrder' = rowOrder
               /\ IF parent = Null
                  THEN /\ emitted' = << >>
                       /\ UNCHANGED << props, host, order, expanded, editing, sel, hist >>
                  ELSE LET grandParent == IF HasRow(rows, parent.s)
                                          THEN GetParentId(RowOf(rows, parent.s))
                                          ELSE Null
                       IN /\ emitted' = << Change(rowId, PARENT_COL_ID, parent, grandParent) >>
                          /\ ParentOf(rows', rowId) = grandParent]_vars

\* r4 was under r2, itself under r1: its outdent has put it under r1
C20_Witness ==
  /\ lastOp = "outdent"
  /\ emitted = << Change("r4", PARENT_COL_ID, Str("r2"), Str("r1")) >>
  /\ ParentOf(rows, "r4") = Str("r1")
  /\ ParentOf(rows, "r2") = Str("r1")

\* the positions of the row order, in the direction delta from position idx,
\* whose row has the parent of the row at idx
SameParentTowards(idx, delta) ==
  { j \in DOMAIN rowOrder :
      /\ IF delta < 0 THEN j < idx ELSE j > idx
      /\ ParentOf(rows, rowOrder[j]) = ParentOf(rows, rowOrder[idx]) }

\* C21: a move of a row among its siblings swaps it with the nearest row of
\* the same parent in that direction of the row order, every other id staying
\* at its index, and emits the new order; with no such row the order is
\* unchanged and no row-reorder event is emitted
C21_MoveSwapsWithSibling ==
  [][lastOp' = "move" =>
       \A i \in 0..(rowCount - 1), delta \in {0 - 1, 1} :
          MoveAt(i, delta) =>
            LET idx == PosIn(rowOrder, visible[i + 1].row.id)
                towards == SameParentTowards(idx, delta)
                j == CHOOSE a \in towards :
                       \A b \in towards : IF delta < 0 THEN b <= a ELSE a <= b
            IN IF towards = {}
               THEN rowOrder' = rowOrder /\ notified' = None
               ELSE /\ rowOrder' = [rowOrder EXCEPT ![idx] = rowOrder[j], ![j] = rowOrder[idx]]
                    /\ notified' = Some(ReorderRowsEvent(rowOrder'))]_vars

\* C22, as stated: in tree mode a drop on a rendered row whose parent is not
\* the dragged row's parent leaves the row order as it is and emits no
\* row-reorder event
C22_DropOnOtherParentRejected ==
  [][lastOp' = "rowDrop" =>
       \A from \in 0..(rowCount - 1), to \in 0..(rowCount - 1) :
          (/\ RowDrop(from, to)
           /\ treeMode
           /\ ParentOf(rows, visible[from + 1].row.id) # ParentOf(rows, visible[to + 1].row.id))
          => (rowOrder' = rowOrder /\ notified' = None)]_vars

\* C22: in tree mode a drop whose target, the row dropped on or for a summary
\* row the nearest non-summary row rendered before it, has another parent
\* than the dragged row leaves the row order as it is and emits no
\* row-reorder event
C22_DropAcrossParentsRejected ==
  [][lastOp' = "rowDrop" =>
       \A from \in 0..(rowCount - 1), to \in 0..(rowCount - 1) :
          LET vis == visible
              near == NearestBefore(vis, to)
              target == IF ~vis[to + 1].isSummary THEN { to } ELSE near
          IN (/\ RowDrop(from, to)
              /\ treeMode
              /\ \A t \in target :
                   ParentOf(rows, vis[from + 1].row.id) # ParentOf(rows, vis[t + 1].row.id))
             => (rowOrder' = rowOrder /\ notified' = None)]_vars

\* three rows are rendered, each under the one before, so whichever row was
\* dropped on another had another parent: the drop emitted nothing
C22_Witness ==
  /\ lastOp = "rowDrop"
  /\ treeMode
  /\ notified = None
  /\ Len(visible) = 3
  /\ \A i \in 2..3 : ParentOf(rows, visible[i].row.id) = Str(visible[i - 1].row.id)
  /\ \A i \in 1..3 : ~visible[i].isSummary

\* rows the host replaces and the user drags, in a flat grid and in a tree
InitDrop == \E tm \in BOOLEAN : InitWith(FALSE, tm, TRUE, TRUE, SubSeq(RowPool, 1, 3))

NextDrop ==
  \/ \E rs \in HostRowLists : HostSetRows(rs)
  \/ \E from \in 0..(rowCount - 1), to \in 0..(rowCount - 1) : RowDrop(from, to)

SpecDrop == InitDrop /\ [][NextDrop]_vars

\* C23: an accepted row drop emits the new row order, a permutation of the
\* old one in which the ids other than the dragged one stand as they stood
\* and the dragged id stands directly after the target when it came from
\* above it and directly before it when it came from below; the target of a
\* drop on a summary row is the nearest non-summary row rendered before it,
\* and without such a row the drop changes nothing and emits nothing
C23_DropPutsNextToTarget ==
  [][lastOp' = "rowDrop" =>
       \A from \in 0..(rowCount - 1), to \in 0..(rowCount - 1) :
          RowDrop(from, to) =>
            LET vis == visible
                dragged == vis[from + 1].row.id
                target == IF ~vis[to + 1].isSummary THEN { vis[to + 1].row.id }
                          ELSE { vis[k + 1].row.id : k \in NearestBefore(vis, to) }
                others == SeqToSet(rowOrder) \ { dragged }
            IN IF \/ from = to
                  \/ target = {}
                  \/ treeMode /\ \A t \in target : ParentOf(rows, t) # ParentOf(rows, dragged)
               THEN rowOrder' = rowOrder /\ notified' = None
               ELSE /\ notified' = Some(ReorderRowsEvent(rowOrder'))
                    /\ Len(rowOrder') = Len(rowOrder)
                    /\ SeqToSet(rowOrder') = SeqToSet(rowOrder)
                    /\ FilterIn(rowOrder', others) = FilterIn(rowOrder, others)
                    /\ \A t \in target \ { dragged } :
                         IF PosIn(rowOrder, dragged) < PosIn(rowOrder, t)
                         THEN PosIn(rowOrder', dragged) = PosIn(rowOrder', t) + 1
                         ELSE PosIn(rowOrder', dragged) = PosIn(rowOrder', t) - 1]_vars

\* r1 was dragged from the top past r2: it stands directly after r2, before
\* the summary row
C23_Witness ==
  /\ lastOp = "rowDrop"
  /\ RowIdsOf(rows) = << "r1", "r2", "r3" >>
  /\ rowOrder = << "r2", "r1", "r3" >>
  /\ notified = Some(ReorderRowsEvent(rowOrder))

(***************************************************************************)
(* The column order: the host passes lists of up to three columns, the     *)
(* third a column no row holds a value for, and the user drags headers     *)
(* onto headers.                                                           *)
(***************************************************************************)
ColumnPool == [i \in DOMAIN ColumnDefs |-> ColumnDefs[i].id] \o << "note" >>

InitColumns == InitWith(FALSE, FALSE, TRUE, TRUE, InitRows)

NextColumns ==
  \/ \E cs \in ListsOf(ColumnPool) : HostSetColumns(cs)
  \/ \E from \in 0..(colCount - 1), to \in 0..(colCount - 1) : HeaderDrop(from, to)

SpecColumns == InitColumns /\ [][NextColumns]_vars

\* C24: a header drop from index i on another index j emits the new column
\* order, a permutation of the old one that holds the dragged id at index j
\* and the other ids as they stood; a drop on the index it came from changes
\* nothing and emits nothing
C24_HeaderDropMovesToIndex ==
  [][lastOp' = "headerDrop" =>
       \A i \in 0..(colCount - 1), j \in 0..(colCount - 1) :
          HeaderDrop(i, j) =>
            LET dragged == allCols[i + 1]
                others == SeqToSet(colOrder) \ { dragged }
            IN IF i = j
               THEN colOrder' = colOrder /\ notified' = None
               ELSE /\ colOrder'[j + 1] = dragged
                    /\ Len(colOrder') = Len(colOrder)
                    /\ SeqToSet(colOrder') = SeqToSet(colOrder)
                    /\ FilterIn(colOrder', others) = FilterIn(colOrder, others)
                    /\ notified' = Some(ReorderColumnsEvent(colOrder'))]_vars

\* the first of three columns was dropped on the last: the two others moved
\* up, in their order
C24_Witness ==
  /\ lastOp = "headerDrop"
  /\ columns = << "name", "qty", "note" >>
  /\ colOrder = << "qty", "note", "name" >>
  /\ notified = Some(ReorderColumnsEvent(colOrder))

(***************************************************************************)
(* The window: a flat grid of up to MaxWindowRows rows, low rows and a low *)
(* body, which the user scrolls while the host passes longer and shorter   *)
(* row lists.                                                              *)
(***************************************************************************)
WindowPool == [i \in 1..MaxWindowRows |-> [InitRows[1] EXCEPT !.id = "w" \o ToString(i)]]

RowHeights == {1, 2}
BodyHeights == {0, 1, 3}

InitWindow ==
  \E rh \in RowHeights, bh \in BodyHeights :
     InitView(FALSE, FALSE, TRUE, TRUE, WindowPool, rh, bh)

NextWindow ==
  \/ \E y \in 0..(MaxWindowRows * 2) : Scroll(y)
  \/ \E k \in 0..MaxWindowRows : HostSetRows(SubSeq(WindowPool, 1, k))

SpecWindow == InitWindow /\ [][NextWindow]_vars

\* C25: with q the whole rows scrolled past and c the rows that cover the
\* body height, the window starts at max(0, q - 6) and ends at
\* min(total - 1, start + c + 11); the materialized rows are the rendered
\* rows from start to end, at most c + 12 of them, none of no rows
C25_WindowBounds ==
  \E q \in 0..scrollTop, c \in 0..bodyHeight :
     /\ q * rowHeight <= scrollTop /\ scrollTop < (q + 1) * rowHeight
     /\ (c - 1) * rowHeight < bodyHeight /\ bodyHeight <= c * rowHeight
     /\ startIdx = Max(0, q - 6)
     /\ endIdx = Min(rowCount - 1, startIdx + c + 11)
     /\ LET inside == { i \in 0..(rowCount - 1) : startIdx <= i /\ i <= endIdx }
        IN /\ Len(windowRows) = Cardinality(inside)
           /\ \A k \in DOMAIN windowRows :
                startIdx + k - 1 \in inside /\ windowRows[k] = visible[startIdx + k]
     /\ Len(windowRows) <= c + 12
     /\ rowCount = 0 => windowRows = << >>

\* rows are skipped above and below a window that is full
C25_Witness ==
  /\ startIdx > 0
  /\ endIdx < rowCount - 1
  /\ Len(windowRows) = CeilDiv(bodyHeight, rowHeight) + 12
  /\ bodyHeight > rowHeight

\* C26: the padding above, the materialized rows and the padding below add
\* up to the height of all rendered rows, the paddings being the heights of
\* the rows skipped above and below the window
C26_PaddingKeepsHeight ==
  /\ contentHeight = rowCount * rowHeight
  /\ padTop = Cardinality({ i \in 0..(rowCount - 1) : i < startIdx }) * rowHeight
  /\ padBottom = Cardinality({ i \in 0..(rowCount - 1) : i > endIdx }) * rowHeight

\* C26 while the window starts inside the list
C26_PaddingKeepsHeightInside ==
  startIdx <= rowCount => C26_PaddingKeepsHeight

(***************************************************************************)
(* Selection events.                                                       *)
(***************************************************************************)
\* a tree grid whose rows the host removes while the pointer selects: the row
\* count shrinks below the anchor and below the indices the pointer passes
InitPointer == InitWith(FALSE, TRUE, TRUE, TRUE, InitRows)

NextPointer ==
  \/ \E r \in Idx, c \in ColIdx : SetSingle(r, c)
  \/ \E r \in Idx, c \in ColIdx : SetRange(r, c)
  \/ \E id \in RowIds : HostRemoveRow(id)
  \/ \E id \in ColIds : HostRemoveColumn(id)

SpecPointer == InitPointer /\ [][NextPointer]_vars

\* the index in 0..n-1 nearest to v (0 on an empty axis, as the code's clamp
\* gives), stated without the clamp
NearestIndex(v, n) ==
  LET range == 0..Max(0, n - 1)
      dist(k) == IF k >= v THEN k - v ELSE v - k
  IN CHOOSE k \in range : \A j \in range : dist(k) <= dist(j)

OneCell(r, c) == [r0 |-> r, r1 |-> r, c0 |-> c, c1 |-> c]

\* the indices lo..hi in ascending order
Ascending(lo, hi) == [i \in 1..(hi - lo + 1) |-> lo + i - 1]

\* C27: on a grid with at least one row and one column, setSingle(r, c) for
\* any r and c (negative or beyond the counts included) sets the anchor to
\* the cell nearest to (r, c) inside the grid, the rectangle to exactly that
\* cell, and emits selection-changed with that one row index and that one
\* column index.
C27_SingleSelectsClampedCell ==
  [][lastOp' = "setSingle" /\ rowCount >= 1 /\ colCount >= 1 =>
       \A r \in Idx, c \in ColIdx :
          SetSingle(r, c) =>
            LET rr == NearestIndex(r, rowCount)
                cc == NearestIndex(c, colCount)
            IN /\ rr \in 0..(rowCount - 1) /\ cc \in 0..(colCount - 1)
               /\ (r \in 0..(rowCount - 1) => rr = r)
               /\ (c \in 0..(colCount - 1) => cc = c)
               /\ anchor' = Some([r |-> rr, c |-> cc])
               /\ rect' = Some(OneCell(rr, cc))
               /\ notified' = Some(SelectionEvent(<< rr >>, << cc >>))]_vars

\* a single selection of the last cell of a grid shorter than the largest
\* index a caller passes
C27_Witness ==
  /\ lastOp = "setSingle"
  /\ rowCount >= 1 /\ rowCount <= MaxIdx /\ colCount >= 2
  /\ rect = Some(OneCell(rowCount - 1, colCount - 1))
  /\ anchor = Some([r |-> rowCount - 1, c |-> colCount - 1])
  /\ notified = Some(SelectionEvent(<< rowCount - 1 >>, << colCount - 1 >>))

\* C28: setRange(r, c) with an anchor sets the rectangle to the bounding box
\* of the anchor and the cell nearest to (r, c) inside the grid, so the
\* rectangle contains the anchor; the anchor is unchanged; the event carries
\* every row index r0..r1 and every column index c0..c1.  With no anchor it
\* does what setSingle(r, c) does.
C28_RangeIsBoundingBox ==
  [][lastOp' = "setRange" =>
       \A r \in Idx, c \in ColIdx :
          SetRange(r, c) =>
            LET rr == NearestIndex(r, rowCount)
                cc == NearestIndex(c, colCount)
            IN IF IsSome(anchor)
               THEN LET a == The(anchor)
                        box == The(rect')
                    IN /\ IsSome(rect')
                       /\ box.r0 <= a.r /\ a.r <= box.r1
                       /\ box.c0 <= a.c /\ a.c <= box.c1
                       /\ box.r0 <= rr /\ rr <= box.r1
                       /\ box.c0 <= cc /\ cc <= box.c1
                       /\ box.r0 \in {a.r, rr} /\ box.r1 \in {a.r, rr}
                       /\ box.c0 \in {a.c, cc} /\ box.c1 \in {a.c, cc}
                       /\ anchor' = anchor
                       /\ notified' = Some(SelectionEvent(Ascending(box.r0, box.r1),
                                                          Ascending(box.c0, box.c1)))
               ELSE /\ anchor' = Some([r |-> rr, c |-> cc])
                    /\ rect' = Some(OneCell(rr, cc))
                    /\ notified' = Some(SelectionEvent(<< rr >>, << cc >>))]_vars

\* a range of several rows and columns with the anchor at its lower left
\* corner: the pointer went up and to the right of the anchor
C28_Witness ==
  /\ lastOp = "setRange"
  /\ IsSome(anchor) /\ IsSome(rect)
  /\ The(rect).r1 > The(rect).r0 /\ The(rect).c1 > The(rect).c0
  /\ The(anchor).r = The(rect).r1 /\ The(anchor).c = The(rect).c0
  /\ Len(The(notified).rows) >= 2 /\ Len(The(notified).cols) >= 2

(***************************************************************************)
(* Handlers and exceptions; change requests and commits.                   *)
(***************************************************************************)
\* C29: no user-driven operation raises, in any reachable state; copy, paste
\* and Delete on a rectangle that reaches below the rendered rows skip the
\* missing rows.
C29_NoHandlerRaises == ~threw

\* C29 for paste alone: doPaste bounds its loops by rowCount and colCount
C29_PasteNeverRaises == lastOp = "paste" => ~threw

\* C30: every batch of change requests a handler emits (a committed edit, a
\* paste, a Delete, an undo, a redo, an indent or outdent reparent) is
\* followed by exactly one commit event within that handler.
C30_BatchThenOneCommit == emitted # << >> => commits = 1

\* C30 for the handlers other than the reparenting ones
C30_CellBatchThenOneCommit ==
  (emitted # << >> /\ lastOp \notin {"indent", "outdent"}) => commits = 1

(***************************************************************************)
(* Protected cells.                                                        *)
(***************************************************************************)
\* the change ch writes a cell of a summary row or a cell whose column's
\* editable predicate is false for the row
WritesProtectedCell(ch) ==
  /\ ch.colId \in ColIds
  /\ HasRow(rows, ch.rowId)
  /\ \/ RowOf(rows, ch.rowId).type = "summary"
     \/ ColDefOf(ch.colId).hasEditable /\ RowOf(rows, ch.rowId).locked

\* C31: no change request is emitted for a cell of a summary row or for a
\* cell whose column's editable predicate is false for the row, by a direct
\* edit, a paste or a Delete.
C31_NoWriteToProtectedCell ==
  lastOp \in {"commitEdit", "paste", "delete"} =>
    \A i \in DOMAIN emitted : ~WritesProtectedCell(emitted[i])

\* C31 for the direct edit alone: startEdit refuses the protected cells
C31_EditSparesProtectedCells ==
  lastOp = "commitEdit" => \A i \in DOMAIN emitted : ~WritesProtectedCell(emitted[i])

(***************************************************************************)
(* Undo and redo with nothing to undo or redo.                             *)
(***************************************************************************)
\* the undo and redo keys between pastes and Delete presses on a selected cell
NextUndoKeys ==
  \/ \E r \in 0..(rowCount - 1), c \in 0..(colCount - 1) : CellMouseDown(r, c)
  \/ \E m \in PasteMatrices : Paste(m)
  \/ Delete
  \/ Undo
  \/ Redo

SpecUndoKeys == Init /\ [][NextUndoKeys]_vars

\* C32: the undo key on an empty undoStack and the redo key on an empty
\* redoStack get no action from the history hook, leave both stacks as they
\* are and emit neither a change request nor a commit event.
C32_EmptyUndoRedoDoNothing ==
  [][/\ (lastOp' = "undo" /\ undoStack = << >>) =>
          /\ ret' = None
          /\ undoStack' = undoStack /\ redoStack' = redoStack
          /\ emitted' = << >> /\ commits' = 0
          /\ rows' = rows
     /\ (lastOp' = "redo" /\ redoStack = << >>) =>
          /\ ret' = None
          /\ undoStack' = undoStack /\ redoStack' = redoStack
          /\ emitted' = << >> /\ commits' = 0
          /\ rows' = rows]_vars

\* an undo found nothing to undo while an undone action waits for a redo
C32_Witness ==
  /\ lastOp = "undo"
  /\ ret = None
  /\ undoStack = << >>
  /\ redoStack # << >>
  /\ emitted = << >> /\ commits = 0

(***************************************************************************)
(* Column filters.  The host enables them (enableFilters); the component   *)
(* declares no such prop, renders no filter input and keeps no predicate,  *)
(* so the predicates a user wants are state the projection never reads.    *)
(***************************************************************************)
\* enableFilters={true}, as the host passes it
enableFilters == TRUE

\* the predicates of a column: >=N, <=N and the closed range A..B for a
\* number column, a substring for a text column
AtLeast(n) == [kind |-> "atLeast", a |-> n, b |-> n, s |-> ""]
AtMost(n) == [kind |-> "atMost", a |-> n, b |-> n, s |-> ""]
Between(a, b) == [kind |-> "between", a |-> a, b |-> b, s |-> ""]
Contains(s) == [kind |-> "contains", a |-> 0, b |-> 0, s |-> s]

FilterPredicates(colId) ==
  IF colId = "qty" THEN { AtLeast(10), AtMost(10), Between(8, 12) } ELSE { Contains("a") }

\* whether the value v satisfies the predicate p; the texts of the model are
\* empty or one letter, so one contains another exactly if they are equal
Satisfies(v, p) ==
  CASE p.kind = "atLeast" -> v.k = "number" /\ v.n >= p.a
    [] p.kind = "atMost" -> v.k = "number" /\ v.n <= p.a
    [] p.kind = "between" -> v.k = "number" /\ p.a <= v.n /\ v.n <= p.b
    [] p.kind = "contains" -> v.k = "string" /\ v.s = p.s

\* the user enters the predicate p for the column colId, or clears it
SetFilter(colId, p) ==
  /\ enableFilters
  /\ filters[colId] # p
  /\ filters' = [filters EXCEPT ![colId] = p]
  /\ lastOp' = "setFilter"
  /\ emitted' = << >>
  /\ commits' = 0
  /\ ret' = None
  /\ threw' = FALSE
  /\ notified' = None
  /\ UNCHANGED << props, host, order, expanded, editing, sel, hist, clipboard, scrollTop, drag, gesture, repo >>

\* three flat rows with the quantities 5, 10 and 15
FilterRows ==
  << [InitRows[1] EXCEPT !.id = "q5", !.qty = Num(5), !.name = Str("a")],
     [InitRows[1] EXCEPT !.id = "q10", !.qty = Num(10), !.name = Str("")],
     [InitRows[1] EXCEPT !.id = "q15", !.qty = Num(15), !.name = Str("a")] >>

InitFilter == InitWith(FALSE, FALSE, TRUE, TRUE, FilterRows)

NextFilter ==
  \/ \E c \in ColIds : \E p \in FilterPredicates(c) : SetFilter(c, Some(p))
  \/ \E c \in ColIds : SetFilter(c, None)
  \/ \E from \in 0..(rowCount - 1), to \in 0..(rowCount - 1) : RowDrop(from, to)

SpecFilter == InitFilter /\ [][NextFilter]_vars

\* the ids of the rows of the row order that satisfy every active predicate
MatchingIds ==
  SelectSeq(rowOrder,
            LAMBDA id : /\ HasRow(rows, id)
                        /\ \A c \in ColIds :
                             IsSome(filters[c]) => Satisfies(RowOf(rows, id)[c], The(filters[c])))

\* C33: with filtering enabled, in flat mode, with one or more active column
\* predicates, the visible projection holds exactly the rows that satisfy
\* every active predicate, in row order.
C33_ProjectionKeepsMatchingRows ==
  (enableFilters /\ ~treeMode /\ \E c \in ColIds : IsSome(filters[c])) =>
    [i \in DOMAIN visible |-> visible[i].row.id] = MatchingIds

(***************************************************************************)
(* The read-only grid.                                                     *)
(***************************************************************************)
InitReadonly == InitWith(TRUE, TRUE, TRUE, TRUE, InitRows)

\* what a user can do on a read-only grid: no session ever opens, so there is
\* no draft to change, to commit or to cancel
NextReadonly ==
  \/ \E r \in 0..(rowCount - 1), c \in 0..(colCount - 1) : CellMouseDown(r, c)
  \/ EnterKey
  \/ \E m \in PasteMatrices : Paste(m)
  \/ Delete
  \/ Undo
  \/ Redo
  \/ Indent
  \/ Outdent

SpecReadonly == InitReadonly /\ [][NextReadonly]_vars

\* C34: on a read-only grid no operation emits a change request, and the
\* host's rows stay as the host set them.
C34_ReadonlyEmitsNothing == readonly => (emitted = << >> /\ rows = rows0)

\* C34 for the edit session alone: on a read-only grid none ever opens
C34_ReadonlyNeverEdits == readonly => ~IsSome(editing)

(***************************************************************************)
(* Enter inside the editor.                                                *)
(***************************************************************************)
InitEnter == InitWith(FALSE, TRUE, TRUE, TRUE, InitRows)

NextEnter ==
  \/ \E r \in 0..(rowCount - 1), c \in 0..(colCount - 1) : StartEdit(r, c)
  \/ \E d \in DraftsOf("name") \cup DraftsOf("qty") : SetDraft(d)
  \/ EnterInEditor
  \/ CancelEdit
  \/ \E id \in RowIds : HostRemoveRow(id)

SpecEnter == InitEnter /\ [][NextEnter]_vars

\* C35: one press of Enter inside an open editor whose draft differs from the
\* stored value results in exactly one change request and exactly one
\* HistoryAction.
C35_EnterCommitsOnce ==
  [][(/\ lastOp' = "enterInEditor"
      /\ IsSome(editing)
      /\ HasRow(rows, The(editing).rowId)
      /\ RowOf(rows, The(editing).rowId)[The(editing).colId] # The(editing).draft) =>
        /\ Len(emitted') = 1
        /\ Len(undoStack') = Len(undoStack) + 1]_vars

\* C35 for the session: whatever it committed, the press of Enter closes it
C35_EnterClosesSession == lastOp = "enterInEditor" => ~IsSome(editing)

(***************************************************************************)
(* Drags step by step: dragstart, drop on a row, drop on a header cell,    *)
(* release outside a drop target.                                          *)
(***************************************************************************)
\* the element [m] = next.splice(from, 1) yields when from is past the end
UndefinedId == "undefined"

\* the drag's source index: dragRowIdx ?? Number(e.dataTransfer.getData('text/plain'))
SourceIdx(kept) == IF IsSome(kept) THEN The(kept) ELSE The(dragData).idx

\* onRowDragStart(e, idx) on the handle of the rendered row idx
RowDragStart(idx) ==
  /\ dragData = None
  /\ idx < rowCount /\ ~visible[idx + 1].isSummary
  /\ dragRowIdx' = Some(idx)
  /\ dragData' = Some([axis |-> "row", idx |-> idx])
  /\ ObserveDrag("rowDragStart", None)
  /\ UNCHANGED << props, host, order, expanded, editing, sel, hist, dragColIdx >>

\* onHeaderDragStart(e, i) on the rendered header cell i
HeaderDragStart(i) ==
  /\ dragData = None
  /\ i < colCount
  /\ dragColIdx' = Some(i)
  /\ dragData' = Some([axis |-> "col", idx |-> i])
  /\ ObserveDrag("headerDragStart", None)
  /\ UNCHANGED << props, host, order, expanded, editing, sel, hist, dragRowIdx >>

\* onRowDrop(e, to): the drag in progress is dropped on the rendered row to
DropOnRow(to) ==
  LET res == DropOrder(SourceIdx(dragRowIdx), to)
  IN /\ IsSome(dragData)
     /\ to < rowCount
     /\ ObserveDrag("dropOnRow", IF IsSome(res) THEN Some(ReorderRowsEvent(The(res))) ELSE None)
     /\ dragRowIdx' = IF IsSome(res) THEN None ELSE dragRowIdx
     /\ dragData' = None
     /\ IF IsSome(res) THEN SettleOrder(The(res))
        ELSE UNCHANGED << props, host, order, expanded >>
     /\ UNCHANGED << editing, sel, hist, dragColIdx >>

\* const next = [...colOrder]; const [m] = next.splice(from, 1);
\* next.splice(to, 0, m), indexes from 0 and from anywhere at or past 0
HeaderOrder(from, to) ==
  LET n == Len(colOrder)
      m == IF from < n THEN colOrder[from + 1] ELSE UndefinedId
      rest == IF from < n
              THEN [i \in 1..(n - 1) |-> IF i < from + 1 THEN colOrder[i] ELSE colOrder[i + 1]]
              ELSE colOrder
      at == Min(to, Len(rest))
  IN SubSeq(rest, 1, at) \o << m >> \o SubSeq(rest, at + 1, Len(rest))

\* onHeaderDrop(e, to): the drag in progress is dropped on the rendered header
\* cell to
DropOnHeader(to) ==
  LET from == SourceIdx(dragColIdx)
  IN /\ IsSome(dragData)
     /\ to < colCount
     /\ colOrder' = IF from = to THEN colOrder ELSE HeaderOrder(from, to)
     /\ ObserveDrag("dropOnHeader",
                    IF from = to THEN None ELSE Some(ReorderColumnsEvent(colOrder')))
     /\ dragColIdx' = IF from = to THEN dragColIdx ELSE None
     /\ dragData' = None
     /\ UNCHANGED << props, host, rowOrder, expanded, editing, sel, hist, dragRowIdx >>

\* the drag in progress is released outside every drop target: no handler runs
DragRelease ==
  /\ IsSome(dragData)
  /\ dragData' = None
  /\ ObserveDrag("dragRelease", None)
  /\ UNCHANGED << props, host, order, expanded, editing, sel, hist, dragRowIdx, dragColIdx >>

\* three draggable rows, the second a child of the first, under two columns
InitDrag == \E tm \in BOOLEAN : InitWith(FALSE, tm, TRUE, TRUE, DataRows)

NextDrag ==
  \/ \E idx \in 0..(rowCount - 1) : RowDragStart(idx)
  \/ \E i \in 0..(colCount - 1) : HeaderDragStart(i)
  \/ \E to \in 0..(rowCount - 1) : DropOnRow(to)
  \/ \E to \in 0..(colCount - 1) : DropOnHeader(to)
  \/ DragRelease

SpecDrag == InitDrag /\ [][NextDrag]_vars

\* the order without the id
Without(ord, id) == SelectSeq(ord, LAMBDA x : x # id)

\* C36: a drop that changes the row order belongs to a drag that started on a
\* row handle and moves the row of that handle only; a drop that changes the
\* column order belongs to a drag that started on a header cell and moves the
\* column of that header cell only.
C36_DropMovesDraggedItem ==
  [][/\ rowOrder' # rowOrder =>
          /\ IsSome(dragData) /\ The(dragData).axis = "row"
          /\ \A vis \in { visible } :
               Without(rowOrder', vis[The(dragData).idx + 1].row.id)
                 = Without(rowOrder, vis[The(dragData).idx + 1].row.id)
     /\ colOrder' # colOrder =>
          /\ IsSome(dragData) /\ The(dragData).axis = "col"
          /\ Without(colOrder', allCols[The(dragData).idx + 1])
               = Without(colOrder, allCols[The(dragData).idx + 1])]_vars

\* C36 for the pending index: with no drag in progress none is kept
C36_NoPendingSourceIndex == dragData = None => (dragRowIdx = None /\ dragColIdx = None)

\* C36 across the axes: a header drag leaves the row order alone, a row drag
\* the column order
C36_DragStaysOnItsAxis ==
  [][IsSome(dragData) =>
       /\ The(dragData).axis = "col" => rowOrder' = rowOrder
       /\ The(dragData).axis = "row" => colOrder' = colOrder]_vars

\* C36 for the column order: it holds column ids only
C36_ColumnOrderHoldsColumnIds == SeqToSet(colOrder) \subseteq ColIds

\* C36 on one axis with nothing pending from the other: the drop reads the
\* index its own drag started on
C36_SameAxisDropReadsOwnIndex ==
  IsSome(dragData) =>
    /\ The(dragData).axis = "row" => dragRowIdx = Some(The(dragData).idx)
    /\ The(dragData).axis = "col" => dragColIdx = Some(The(dragData).idx)

(***************************************************************************)
(* The pointer gesture on cells: press, enter, release.                    *)
(***************************************************************************)
\* const moved = dx > 4 || dy > 4
ClickThreshold == 4

\* the distances between press and release, per axis
Offsets == {0, ClickThreshold, ClickThreshold + 1}

\* what a handler of the gesture leaves for the observer
ObserveGesture(op, ev) ==
  /\ lastOp' = op
  /\ emitted' = << >>
  /\ commits' = 0
  /\ ret' = None
  /\ threw' = FALSE
  /\ notified' = ev
  /\ clipboard' = clipboard
  /\ scrollTop' = scrollTop
  /\ filters' = filters
  /\ UNCHANGED << drag, repo >>

\* the effect on [editing]: onMouseUp of the render that follows a handler
\* which left the rows, the orders and the expanded set alone is registered
\* when that handler set editing
Registered(e) == IF e # editing THEN [vis |-> visible, cols |-> allCols] ELSE listener

\* onCellMouseDown(e, rAbs, cIdx) on a rendered cell, outside an edit session
PointerDown(r, c) ==
  LET sr == SingleRect(r, c)
  IN /\ ~IsSome(editing)
     /\ rect' = Some(sr)
     /\ anchor' = Some([r |-> sr.r0, c |-> sr.c0])
     /\ isDraggingRange' = TRUE
     /\ dragStartRef' = Some([r |-> r, c |-> c])
     /\ ObserveGesture("pointerDown", Some(SelectionEvent(<< sr.r0 >>, << sr.c0 >>)))
     /\ UNCHANGED << props, host, order, expanded, editing, hist, listener >>

\* onCellMouseEnter(e, rAbs, cIdx) on a rendered cell
PointerEnter(r, c) ==
  IF isDraggingRange THEN SetRange(r, c)
  ELSE /\ Observe("pointerEnter", << >>, 0, None, FALSE)
       /\ UNCHANGED << props, host, order, expanded, editing, sel, hist >>

\* onMouseUp(e) of the registered render, the pointer released dx and dy away
\* from where it was pressed
PointerUp(dx, dy) ==
  LET st == The(dragStartRef)
      moved == dx > ClickThreshold \/ dy > ClickThreshold
      e == IF ~moved /\ ~IsSome(editing)
           THEN StartEditOn(listener.vis, listener.cols, st.r, st.c)
           ELSE editing
  IN /\ IsSome(dragStartRef)
     /\ editing' = e
     /\ isDraggingRange' = FALSE
     /\ dragStartRef' = None
     /\ listener' = Registered(e)
     /\ ObserveGesture("pointerUp", None)
     /\ UNCHANGED << props, host, order, expanded, sel, hist >>

\* Enter on the grid, the pointer pressed or not: if (rect) startEdit(rect.r0, rect.c0)
EnterOnGrid ==
  /\ IsSome(rect)
  /\ ~IsSome(editing)
  /\ editing' = StartEditResult(The(rect).r0, The(rect).c0)
  /\ listener' = Registered(editing')
  /\ ObserveGesture("enterOnGrid", None)
  /\ UNCHANGED << props, host, order, expanded, sel, hist, isDraggingRange, dragStartRef >>

\* Escape inside the editor: cancelEdit()
EscapeInEditor ==
  /\ IsSome(editing)
  /\ editing' = None
  /\ listener' = Registered(None)
  /\ ObserveGesture("escapeInEditor", None)
  /\ UNCHANGED << props, host, order, expanded, sel, hist, isDraggingRange, dragStartRef >>

InitGesture == InitWith(FALSE, TRUE, TRUE, TRUE, DataRows)

NextGesture ==
  \/ \E r \in 0..(rowCount - 1), c \in 0..(colCount - 1) : PointerDown(r, c)
  \/ \E r \in 0..(rowCount - 1), c \in 0..(colCount - 1) : PointerEnter(r, c)
  \/ \E dx \in Offsets, dy \in Offsets : PointerUp(dx, dy)
  \/ EnterOnGrid
  \/ EscapeInEditor
  \/ \E id \in RowIds : ~isDraggingRange /\ ToggleExpand(id)

SpecGesture == InitGesture /\ [][NextGesture]_vars

\* C37: a release clears the gesture state, and it opens the edit session of
\* the pressed cell when the pointer moved at most 4px on both axes and no
\* session was open, and leaves the editing state alone otherwise.
C37_ReleaseOpensSessionOnPressedCell ==
  [][\A dx \in Offsets, dy \in Offsets :
       PointerUp(dx, dy) =>
         /\ ~isDraggingRange' /\ dragStartRef' = None
         /\ editing' = IF dx <= 4 /\ dy <= 4 /\ ~IsSome(editing)
                       THEN StartEditResult(The(dragStartRef).r, The(dragStartRef).c)
                       ELSE editing]_vars

\* C37 for the press: it selects the pressed cell alone and enters the
\* range-drag state
C37_PressSelectsCell ==
  lastOp = "pointerDown" =>
    /\ isDraggingRange
    /\ IsSome(dragStartRef)
    /\ rect = Some([r0 |-> The(dragStartRef).r, r1 |-> The(dragStartRef).r,
                    c0 |-> The(dragStartRef).c, c1 |-> The(dragStartRef).c])

\* C37 for the release: the gesture state is cleared
C37_ReleaseClearsGesture == lastOp = "pointerUp" => (~isDraggingRange /\ dragStartRef = None)

\* C37 outside the gesture: a pointer-enter leaves the selection alone
C37_EnterAfterReleaseKeepsSelection ==
  [][\A r \in 0..(rowCount - 1), c \in 0..(colCount - 1) :
       (PointerEnter(r, c) /\ ~isDraggingRange) => UNCHANGED sel]_vars

\* C37 for the release far from the press: no session is opened
C37_DragOpensNoSession ==
  [][\A dx \in Offsets, dy \in Offsets :
       (PointerUp(dx, dy) /\ (dx > 4 \/ dy > 4)) => editing' = editing]_vars

(***************************************************************************)
(* The arrow keys, with and without modifiers.                             *)
(***************************************************************************)
ArrowKeys == {"ArrowUp", "ArrowDown", "ArrowLeft", "ArrowRight"}
Modifiers == {"none", "alt", "ctrlOrCmd"}

\* the (dr, dc) handleKeyDown passes to moveCursor for an arrow key
Step(key) ==
  CASE key = "ArrowUp" -> [dr |-> 0 - 1, dc |-> 0]
    [] key = "ArrowDown" -> [dr |-> 1, dc |-> 0]
    [] key = "ArrowLeft" -> [dr |-> 0, dc |-> 0 - 1]
    [] key = "ArrowRight" -> [dr |-> 0, dc |-> 1]

\* moveCursor(dr, dc): the cell it passes to setSingle
CursorCell(dr, dc) ==
  [r |-> Clamp((IF dr >= 0 THEN The(rect).r1 ELSE The(rect).r0) + dr, 0, rowCount - 1),
   c |-> Clamp((IF dc >= 0 THEN The(rect).c1 ELSE The(rect).c0) + dc, 0, colCount - 1)]

\* moveCursor(dr, dc): the scroll offset that keeps row r in the body
CursorScroll(r) ==
  LET y == r * rowHeight
  IN IF y < scrollTop THEN y
     ELSE IF y + rowHeight > scrollTop + bodyHeight
     THEN Clamp(y - bodyHeight + rowHeight, 0, Max(0, contentHeight - bodyHeight))
     ELSE scrollTop

\* handleKeyDown(e) for an arrow key pressed with the modifier mod, outside an
\* edit session: the branches on e.key === 'Arrow...' come before the tree
\* branches and do not look at the modifiers
ArrowKey(key, mod) ==
  LET cell == CursorCell(Step(key).dr, Step(key).dc)
      sr == SingleRect(cell.r, cell.c)
  IN /\ ~IsSome(editing)
     /\ lastOp' = "arrowKey"
     /\ emitted' = << >>
     /\ commits' = 0
     /\ ret' = None
     /\ threw' = FALSE
     /\ clipboard' = clipboard
     /\ filters' = filters
     /\ IF IsSome(rect)
        THEN /\ rect' = Some(sr)
             /\ anchor' = Some([r |-> sr.r0, c |-> sr.c0])
             /\ notified' = Some(SelectionEvent(<< sr.r0 >>, << sr.c0 >>))
             /\ scrollTop' = CursorScroll(cell.r)
        ELSE /\ notified' = None
             /\ UNCHANGED << sel, scrollTop >>
     /\ UNCHANGED << props, host, order, expanded, editing, hist, drag, gesture, repo >>

InitKeys == InitWith(FALSE, TRUE, TRUE, TRUE, RowPool)

NextKeys ==
  \/ \E r \in 0..(rowCount - 1), c \in 0..(colCount - 1) : CellMouseDown(r, c)
  \/ \E key \in ArrowKeys, mod \in Modifiers : ArrowKey(key, mod)
  \/ \E id \in RowIds : ToggleExpand(id)
  \/ \E id \in RowIds : HostRemoveRow(id)

SpecKeys == InitKeys /\ [][NextKeys]_vars

\* C38: in tree mode, outside an edit session and with a row selected,
\* Alt+ArrowRight emits what indentRow emits for the selected row,
\* Alt+ArrowLeft what outdentRow emits, Alt+ArrowUp and Alt+ArrowDown set the
\* order moveRowWithinParent sets, Ctrl/Cmd+ArrowRight and Ctrl/Cmd+ArrowLeft
\* expand and collapse the selected parent, and none of them moves the
\* selection.
C38_HotkeysActOnStructure ==
  [][\A key \in ArrowKeys, mod \in {"alt", "ctrlOrCmd"}, vis \in { visible } :
       (/\ ArrowKey(key, mod)
        /\ treeMode /\ IsSome(rect) /\ SelIdx < Len(vis)
        /\ mod = "ctrlOrCmd" => key \in {"ArrowLeft", "ArrowRight"}) =>
         LET v == vis[SelIdx + 1]
             moved == MoveOrder(v.row.id, IF key = "ArrowUp" THEN 0 - 1 ELSE 1)
         IN /\ UNCHANGED sel
            /\ (mod = "alt" /\ key = "ArrowRight") =>
                 emitted' = IndentResult(vis, v.row.id, SelIdx).patches
            /\ (mod = "alt" /\ key = "ArrowLeft") => emitted' = OutdentPatches(v.row.id)
            /\ (mod = "alt" /\ key \in {"ArrowUp", "ArrowDown"}) =>
                 rowOrder' = IF IsSome(moved) THEN The(moved) ELSE rowOrder
            /\ (mod = "ctrlOrCmd" /\ key = "ArrowRight") =>
                 expanded' = IF v.hasChildren THEN expanded \cup {v.row.id} ELSE expanded
            /\ (mod = "ctrlOrCmd" /\ key = "ArrowLeft") =>
                 expanded' = IF v.hasChildren THEN expanded \ {v.row.id} ELSE expanded]_vars

\* C38 as the handler is: an arrow key moves the selection by one cell
\* whatever the modifier, and changes neither rows, orders nor expansion set
C38_ArrowKeysOnlyNavigate ==
  [][\A key \in ArrowKeys, mod \in Modifiers :
       (ArrowKey(key, mod) /\ IsSome(rect)) =>
         /\ The(rect') = SingleRect(CursorCell(Step(key).dr, Step(key).dc).r,
                                    CursorCell(Step(key).dr, Step(key).dc).c)
         /\ UNCHANGED << host, order, expanded >>
         /\ emitted' = << >>]_vars

(***************************************************************************)
(* Any parent relation: the host passes rows whose parent ids form cycles, *)
(* name the row itself or name no row.                                     *)
(***************************************************************************)
\* the parent ids a host gives a row: none, one of the rows, no row's id
ParentValues == {Null} \cup { Str(DataRows[i].id) : i \in DOMAIN DataRows } \cup {Str("zz")}

ParentRelations == [DOMAIN DataRows -> ParentValues]

\* the rows with the parent ids f
RowsUnder(f) == [i \in DOMAIN DataRows |-> [DataRows[i] EXCEPT !.parentId = f[i]]]

InitParents == InitWith(FALSE, TRUE, TRUE, TRUE, DataRows)

NextParents ==
  \/ \E f \in ParentRelations : HostSetRows(RowsUnder(f))
  \/ \E id \in TreeRowIds : ToggleExpand(id)

SpecParents == InitParents /\ [][NextParents]_vars

\* C39: whatever the parent relation, the tree projection lists no row twice,
\* lists only rows whose chain of parents ends at a null parent, and lists
\* every row whose parent is null.
C39_ProjectionListsRootedRowsOnce ==
  \A vis \in { visible } :
    /\ \A i, j \in DOMAIN vis : i # j => vis[i].row.id # vis[j].row.id
    /\ \A i \in DOMAIN vis : PathOf(rows, vis[i].row.id, Len(rows)) # << >>
    /\ \A k \in DOMAIN rows :
         GetParentId(rows[k]) = Null => \E i \in DOMAIN vis : vis[i].row.id = rows[k].id

\* two rows that are each other's parent beside a root: the root alone is listed
C39_Witness ==
  /\ lastOp = "hostSetRows"
  /\ ParentOf(rows, "r1") = Str("r2")
  /\ ParentOf(rows, "r2") = Str("r1")
  /\ ParentOf(rows, "r4") = Null
  /\ expanded = {"r1", "r2"}
  /\ Len(visible) = 1
  /\ visible[1].row.id = "r4"

\* a row that is its own parent and a row whose parent id names no row: the
\* projection is empty
C39_SelfParentAndOrphan ==
  /\ ParentOf(rows, "r1") = Str("r1")
  /\ ParentOf(rows, "r2") = Str("zz")
  /\ ParentOf(rows, "r4") = Str("r2")
  /\ visible = << >>

(***************************************************************************)
(* ActivityRepo.patch over the IndexedDB driver: each call awaits a get in *)
(* a transaction of its own, then a put in another.  Transactions on one   *)
(* store that conflict run in the order they were created.                 *)
(***************************************************************************)
\* repo.patch(id, {changes: {[f]: ...}}, {rowVersion: e}) is called: up to its
\* first await, this.db.get is requested
PatchCall(p, f, e) ==
  /\ calls[p].pc = "idle"
  /\ calls' = [calls EXCEPT ![p] = [pc |-> "get", field |-> f, expected |-> e, next |-> Activity0]]
  /\ pending' = Append(pending, p)
  /\ UNCHANGED << grid, stored >>

\* the get of call p resolves with the stored row; the call compares the
\* rowVersion, throws or builds next and requests the put
GetResolves(p) ==
  LET current == stored
      call == calls[p]
      conflict == IsSome(call.expected) /\ current.rowVersion # The(call.expected)
      next == [current EXCEPT ![call.field] = p, !.rowVersion = current.rowVersion + 1]
  IN /\ pending # << >> /\ Head(pending) = p
     /\ call.pc = "get"
     /\ IF conflict
        THEN /\ calls' = [calls EXCEPT ![p].pc = "conflict"]
             /\ pending' = Tail(pending)
        ELSE /\ calls' = [calls EXCEPT ![p].pc = "put", ![p].next = next]
             /\ pending' = Append(Tail(pending), p)
     /\ UNCHANGED << grid, stored >>

\* the put of call p resolves: its next row is the stored row, the call returns
PutResolves(p) ==
  /\ pending # << >> /\ Head(pending) = p
  /\ calls[p].pc = "put"
  /\ stored' = calls[p].next
  /\ calls' = [calls EXCEPT ![p].pc = "done"]
  /\ pending' = Tail(pending)
  /\ UNCHANGED grid

\* the rowVersion a caller passes: none, or one the row has or had
ExpectedVersions == {None} \cup { Some(v) : v \in InitialVersion..stored.rowVersion }

InitRepo == InitWith(FALSE, FALSE, TRUE, TRUE, InitRows)

NextRepo ==
  \/ \E p \in Calls, f \in Fields, e \in ExpectedVersions : PatchCall(p, f, e)
  \/ \E p \in Calls : GetResolves(p)
  \/ \E p \in Calls : PutResolves(p)

SpecRepo == InitRepo /\ [][NextRepo]_vars

\* the calls that returned without throwing
Succeeded == { p \in Calls : calls[p].pc = "done" }

\* C40: of two patch calls that carry the same expected rowVersion at most
\* one succeeds; a call that failed with the conflict has none of its changes
\* stored; when no call is under way the stored rowVersion is the initial one
\* plus the number of calls that succeeded.
C40_OptimisticLock ==
  /\ \A p \in Calls, q \in Calls :
       (p # q /\ IsSome(calls[p].expected) /\ calls[p].expected = calls[q].expected) =>
         ~(p \in Succeeded /\ q \in Succeeded)
  /\ \A p \in Calls : calls[p].pc = "conflict" => stored[calls[p].field] # p
  /\ pending = << >> => stored.rowVersion = InitialVersion + Cardinality(Succeeded)

\* C40 for the failed call: none of its changes is stored
C40_ConflictStoresNothing ==
  \A p \in Calls : calls[p].pc = "conflict" => stored[calls[p].field] # p

\* C40 for the count: the stored rowVersion never exceeds the initial one plus
\* the number of calls that succeeded
C40_VersionCountsAtMostSuccesses ==
  stored.rowVersion <= InitialVersion + Cardinality(Succeeded)

\* C40 for the change of a call that succeeded: once no call is under way it
\* is stored, unless another call that succeeded changed the same field
C40_SucceededChangeIsStored ==
  \A p \in Succeeded :
    (pending = << >> /\ \A q \in Succeeded \ {p} : calls[q].field # calls[p].field) =>
      stored[calls[p].field] = p

(***************************************************************************)
(* The history hook on its own: any caller pushes, undoes and redoes.      *)
(***************************************************************************)
\* the actions callers push: one change, two changes, another single change
SampleActions ==
  { [changes |-> << Change("r1", "name", Str("a"), Str("")) >>],
    [changes |-> << Change("r1", "qty", Num(1), Undef), Change("r2", "name", Str(""), Str("a")) >>],
    [changes |-> << Change("r2", "qty", Undef, Num(1)) >>] }

\* history.push(a)
HookPush(a) ==
  /\ Len(undoStack) < MaxDepth
  /\ undoStack' = HistPush(undoStack, redoStack, a).undo
  /\ redoStack' = HistPush(undoStack, redoStack, a).redo
  /\ Observe("push", << >>, 0, None, FALSE)
  /\ UNCHANGED << props, host, order, expanded, editing, sel >>

\* history.undo(); lastOp tells whether it follows a push directly
HookUndo ==
  /\ undoStack' = HistUndo(undoStack, redoStack).undo
  /\ redoStack' = HistUndo(undoStack, redoStack).redo
  /\ Observe(IF lastOp = "push" THEN "push,undo" ELSE "undo",
             << >>, 0, HistUndo(undoStack, redoStack).ret, FALSE)
  /\ UNCHANGED << props, host, order, expanded, editing, sel >>

\* history.redo(); lastOp tells whether it follows a push and an undo directly
HookRedo ==
  /\ undoStack' = HistRedo(undoStack, redoStack).undo
  /\ redoStack' = HistRedo(undoStack, redoStack).redo
  /\ Observe(IF lastOp = "push,undo" THEN "push,undo,redo" ELSE "redo",
             << >>, 0, HistRedo(undoStack, redoStack).ret, FALSE)
  /\ UNCHANGED << props, host, order, expanded, editing, sel >>

InitHistory == InitWith(FALSE, FALSE, TRUE, TRUE, InitRows)

NextHistory ==
  \/ \E a \in SampleActions : HookPush(a)
  \/ HookUndo
  \/ HookRedo

SpecHistory == InitHistory /\ [][NextHistory]_vars

\* C5: after push(a), whatever the stacks held, a is the top of undoStack above
\* the unchanged previous content, redoStack is empty, and a redo returns nothing.
C5_PushClearsRedo ==
  [][\A a \in SampleActions :
       HookPush(a) =>
         /\ Last(undoStack') = a
         /\ Front(undoStack') = undoStack
         /\ redoStack' = << >>
         /\ HistRedo(undoStack', redoStack').ret = None]_vars

\* a push has put an action above older ones and left the redo stack empty
C5_Witness == lastOp = "push" /\ redoStack = << >> /\ Len(undoStack) >= 2

\* C6: from any stacks, push(a); undo() returns a and moves it from the top of
\* undoStack to the top of redoStack; the redo() that follows returns a again
\* and leaves both stacks as they were right after the push.
C6_UndoRedoRoundTrip ==
  /\ \A a \in SampleActions :
        LET p == HistPush(undoStack, redoStack, a)
            u == HistUndo(p.undo, p.redo)
            r == HistRedo(u.undo, u.redo)
        IN /\ u.ret = Some(a)
           /\ u.undo = Front(p.undo) /\ Last(p.undo) = a
           /\ u.redo = Append(p.redo, a)
           /\ r.ret = Some(a)
           /\ r.undo = p.undo /\ r.redo = p.redo
  /\ (lastOp = "push,undo" => ret = Some(Last(redoStack)))
  /\ (lastOp = "push,undo,redo" => ret = Some(Last(undoStack)) /\ redoStack = << >>)

\* a push, an undo and a redo have run in a row above older actions
C6_Witness == lastOp = "push,undo,redo" /\ Len(undoStack) >= 2 /\ ret = Some(Last(undoStack))

====
